---- MODULE Spec2Model ----
(***************************************************************************)
(* Entitlement reconciliation and payment settlement of the VPN bot        *)
(* (src/app/handlers.py, src/bot.py, src/app/models.py).                   *)
(*                                                                         *)
(* Time is counted in whole days (timedelta(days=...) is the only          *)
(* arithmetic the code does on dates); money in minor units (kopecks).     *)
(* Account 1 is the account whose purchases are followed, account 2 is     *)
(* its referrer (users.referred_by_user_id).                               *)
(***************************************************************************)
EXTENDS Integers, Sequences, FiniteSets

VARIABLES
    users,      \* table users: id -> row
    tariffs,    \* table tariffs: id -> row
    payments,   \* table payments, in creation order (index = primary key)
    devices,    \* table devices of account 1, in created_at order
    nodes,      \* table nodes: id -> row
    now,        \* datetime.now(timezone.utc), in days
    sync_pc,    \* sync_access_loop: "sleep" | "loaded" (users selected)
    sync_users, \* the rows sync_access_loop's session selected
    enforced,   \* record of the latest enforce_user_devices run (observation only)
    last,       \* record of the operation that ran last (observation only)
    yk,         \* the payment gateway: yk_payment_id -> status
    tasks,      \* the auto_check_payment tasks created so far
    user_payment_tasks, \* the registry entry of account 1: a task or None
    hpc,        \* the update handler in progress (updates are handled one at a time)
    sweep,      \* the poll_pending_payments run in progress
    applied,    \* per payment, the committed settlements (observation only)
    wg_up,      \* the WireGuard server answers (TRUE) or cannot be reached
    peers       \* the WireGuard server: ids of the devices whose peer exists

dbVars  == <<users, tariffs, payments, devices, nodes>>
enfVars == <<sync_pc, sync_users, enforced>>
payVars == <<yk, tasks, user_payment_tasks, hpc, sweep, applied>>
wgVars  == <<wg_up, peers>>
vars == <<dbVars, now, enfVars, wgVars, last, payVars>>

\* ---------------------------------------------------------------- bounds
\* latest day a stored window or the clock starts at
MaxDay == 2
\* largest device_quota / extra_devices_count drawn in Init
MaxQuota == 2
\* largest number of devices an account starts with
MaxDevices == 3
\* largest load and max_capacity of a node drawn for the node selection
MaxLoad == 2
\* largest number of payment records created in one behaviour
MaxPayments == 2
\* pending records older than the paid one in the sweep specification
MaxOlderPending == 20

\* ------------------------------------------------------------- constants
\* Python None in a nullable column
None == -1
\* timedelta(days=30) of an add-on slot
AddonDays == 30
\* settings.referral_bonus_percent
referral_bonus_percent == 10
\* settings.device_extra_price, in kopecks
device_extra_price == 10000
\* Node.max_capacity default
node_max_capacity == 100
\* poll_pending_payments: .limit(20)
sweep_limit == 20

UserIds == {1, 2}
Purposes == {"TARIFF", "TOPUP", "EXTRA_DEVICE"}

\* ------------------------------------------------------------ entitlement
\* bool(until and until > now)
WindowActive(until, t) == until # None /\ until > t

\* ------------------------------------------------------------- settlement
\* Decimal.quantize(Decimal("0.01")) under the default context: the
\* quotient n/d in kopecks rounded half to even.
QuantizeHalfEven(n, d) ==
    LET q == n \div d
        r == n % d
    IN  IF 2 * r > d THEN q + 1
        ELSE IF 2 * r < d THEN q
        ELSE IF q % 2 = 0 THEN q ELSE q + 1

\* `x = until or now; if x < now: x = now`
ExtendFrom(until, t) ==
    LET x == IF until = None THEN t ELSE until
    IN  IF x < t THEN t ELSE x

\* a settlement that adds the tariff's devices to the old quota
NewDeviceQuota_Added(old, max_devices) == old + max_devices

\* u.device_quota = t.max_devices
NewDeviceQuota(old, max_devices) == max_devices

\* a settlement that sets the add-on count to one slot
NewExtraCount_Reset(old) == 1

\* u.extra_devices_count = (u.extra_devices_count or 0) + 1
NewExtraCount(old) == old + 1

\* A session: the rows it has loaded (orig) and their in-memory state (mem).
\* expire_on_commit=False: a loaded row is never re-read.
EmptySession == [orig |-> <<>>, mem |-> <<>>]

Extend(f, id, row) == [k \in DOMAIN f \cup {id} |-> IF k = id THEN row ELSE f[k]]

\* session.get(User, id): the identity map's row when loaded, else the stored one
SessionGet(s, db, id) ==
    IF id \in DOMAIN s.mem THEN s
    ELSE [orig |-> Extend(s.orig, id, db[id]), mem |-> Extend(s.mem, id, db[id])]

SetMem(s, id, row) == [s EXCEPT !.mem = Extend(s.mem, id, row)]

\* The unit of work's UPDATE: only the columns whose value changed are written
FlushCol(db, s, id, col) ==
    IF id \in DOMAIN s.mem /\ s.mem[id][col] # s.orig[id][col]
    THEN s.mem[id][col] ELSE db[id][col]

Flush(db, s) ==
    [id \in UserIds |->
        [balance              |-> FlushCol(db, s, id, "balance"),
         subscription_until   |-> FlushCol(db, s, id, "subscription_until"),
         device_quota         |-> FlushCol(db, s, id, "device_quota"),
         extra_devices_until  |-> FlushCol(db, s, id, "extra_devices_until"),
         extra_devices_count  |-> FlushCol(db, s, id, "extra_devices_count"),
         referred_by_user_id  |-> db[id].referred_by_user_id]]

\* _apply_successful_payment(session, p): the session after the call
ApplyTariff(s, db, p, t) ==
    LET s1 == SessionGet(s, db, p.user_id)
        u  == s1.mem[p.user_id]
        tf == tariffs[p.tariff_id]
        u2 == [u EXCEPT !.subscription_until = ExtendFrom(u.subscription_until, t) + tf.days,
                        !.device_quota = NewDeviceQuota(u.device_quota, tf.max_devices)]
        s2 == SetMem(s1, p.user_id, u2)
    IN  IF u.referred_by_user_id # None
        THEN LET s3 == SessionGet(s2, db, u.referred_by_user_id)
                 r  == s3.mem[u.referred_by_user_id]
                 bonus == QuantizeHalfEven(p.amount * referral_bonus_percent, 100)
             IN  SetMem(s3, u.referred_by_user_id, [r EXCEPT !.balance = r.balance + bonus])
        ELSE s2

\* a top-up that credits the referrer as a subscription payment does
ApplyTopup_WithBonus(s, db, p) ==
    LET s1 == SessionGet(s, db, p.user_id)
        u  == s1.mem[p.user_id]
        s2 == SetMem(s1, p.user_id, [u EXCEPT !.balance = u.balance + p.amount])
    IN  IF u.referred_by_user_id # None
        THEN LET s3 == SessionGet(s2, db, u.referred_by_user_id)
                 r  == s3.mem[u.referred_by_user_id]
             IN  SetMem(s3, u.referred_by_user_id, [r EXCEPT !.balance = r.balance + 1])
        ELSE s2

\* elif p.purpose == "TOPUP": u.balance = Decimal(u.balance or 0) + Decimal(p.amount)
ApplyTopup(s, db, p) ==
    LET s1 == SessionGet(s, db, p.user_id)
        u  == s1.mem[p.user_id]
    IN  SetMem(s1, p.user_id, [u EXCEPT !.balance = u.balance + p.amount])

ApplyExtraDevice(s, db, p, t) ==
    LET s1 == SessionGet(s, db, p.user_id)
        u  == s1.mem[p.user_id]
    IN  SetMem(s1, p.user_id,
               [u EXCEPT !.extra_devices_until = ExtendFrom(u.extra_devices_until, t) + AddonDays,
                         !.extra_devices_count = NewExtraCount(u.extra_devices_count)])

ApplySuccessfulPayment(s, db, p, t) ==
    IF p.purpose = "TARIFF" /\ p.tariff_id # None THEN ApplyTariff(s, db, p, t)
    ELSE IF p.purpose = "TOPUP" THEN ApplyTopup(s, db, p)
    ELSE IF p.purpose = "EXTRA_DEVICE" THEN ApplyExtraDevice(s, db, p, t)
    ELSE SessionGet(s, db, p.user_id)

\* ------------------------------------------------------------------ rows
UserRow(bal, sub, quota, ext, cnt, ref) ==
    [balance |-> bal, subscription_until |-> sub, device_quota |-> quota,
     extra_devices_until |-> ext, extra_devices_count |-> cnt,
     referred_by_user_id |-> ref]

\* the referrer: an account of its own, with no entitlement
ReferrerRow == UserRow(0, None, 0, None, 0, None)

PaymentRow(yk_id, status, purpose, amount, tariff_id) ==
    [yk_payment_id |-> yk_id, user_id |-> 1, status |-> status, purpose |-> purpose,
     amount |-> amount, tariff_id |-> tariff_id]

TariffRow(days, max_devices, price) ==
    [days |-> days, max_devices |-> max_devices, price |-> price, is_active |-> TRUE]

Amount(purpose, tf) == IF purpose = "EXTRA_DEVICE" THEN device_extra_price ELSE tf.price

NoOp == [op |-> "none"]

NodeRow(load, max_capacity) == [is_active |-> TRUE, load |-> load, max_capacity |-> max_capacity]

HandlerIdle == [pc |-> "idle"]
SweepIdle == [pc |-> "idle"]

\* nothing of the payment machinery is running
PayIdle ==
    /\ yk = <<>> /\ tasks = <<>> /\ user_payment_tasks = None
    /\ hpc = HandlerIdle /\ sweep = SweepIdle
    /\ applied = [i \in DOMAIN payments |-> 0]

\* the sync loop has not selected anything
EnforceIdle == sync_pc = "sleep" /\ sync_users = <<>> /\ enforced = NoOp

\* =====================================================================
\* Settlement of one payment by one session with nothing interleaved:
\* the status write, _apply_successful_payment and the commit
\* (handlers.py 129-140 / 1885-1890 run to completion).
\* =====================================================================
\* Tariff.price (Numeric(12,2)) in kopecks: 300.00, and 299.85 whose bonus
\* of 10 % is 29.985
TariffPrices == {30000, 29985}

SettleInit ==
    /\ now \in 0..MaxDay
    /\ \E bal \in {0, 30000}, sub \in {None} \cup 0..MaxDay, quota \in 0..MaxQuota,
          ext \in {None, 10} \cup 0..MaxDay, cnt \in 0..MaxQuota, ref \in {None, 2} :
          users = [id \in UserIds |->
                     IF id = 1 THEN UserRow(bal, sub, quota, ext, cnt, ref) ELSE ReferrerRow]
    /\ \E md \in 1..MaxQuota, price \in TariffPrices : tariffs = <<TariffRow(30, md, price)>>
    /\ \E purpose \in Purposes :
          payments = <<PaymentRow(1, "pending", purpose, Amount(purpose, tariffs[1]),
                                  IF purpose = "TARIFF" THEN 1 ELSE None)>>
    /\ devices = <<>> /\ nodes = <<NodeRow(0, node_max_capacity)>>
    /\ EnforceIdle /\ PayIdle
    /\ wg_up = TRUE /\ peers = DOMAIN devices
    /\ last = NoOp

SettlePayment(i) ==
    /\ payments[i].status = "pending"
    /\ LET p == [payments[i] EXCEPT !.status = "succeeded"]
           s == ApplySuccessfulPayment(EmptySession, users, p, now)
       IN  /\ payments' = [payments EXCEPT ![i] = p]
           /\ users' = Flush(users, s)
           /\ last' = [op |-> "settle", pid |-> i, before |-> users, at |-> now]
    /\ UNCHANGED <<tariffs, devices, nodes, now, enfVars, wgVars, payVars>>

SettleNext == \E i \in DOMAIN payments : SettlePayment(i)

SpecSettle == SettleInit /\ [][SettleNext]_vars

\* the settlement that has just run, and the payer before and after it
Settled(purpose) == last.op = "settle" /\ payments[last.pid].purpose = purpose
PayerBefore == last.before[1]
Payer == users[1]

\* C8: settling a TARIFF payment sets subscription_until to tariff.days after
\* now when the base window is absent or expired and to tariff.days after the
\* existing expiry when it is still active, replaces device_quota by
\* tariff.max_devices and leaves the payer's balance unchanged.
C8_TariffSettlement ==
    Settled("TARIFF") =>
        LET tf == tariffs[payments[last.pid].tariff_id] IN
        /\ Payer.subscription_until =
              (IF WindowActive(PayerBefore.subscription_until, last.at)
               THEN PayerBefore.subscription_until ELSE last.at) + tf.days
        /\ Payer.device_quota = tf.max_devices
        /\ Payer.balance = PayerBefore.balance

\* an account with no entitlement has bought the 30-day/2-device tariff, and
\* an account with an active window and another quota has bought a tariff
C8_Witness ==
    /\ Settled("TARIFF")
    /\ PayerBefore.subscription_until = None /\ PayerBefore.device_quota = 0
    /\ tariffs[1].days = 30 /\ tariffs[1].max_devices = 2
    /\ Payer.subscription_until = last.at + 30 /\ Payer.device_quota = 2

Ids(devs) == {devs[i].id : i \in DOMAIN devs}

\* select(Device).where(is_extra == flag).order_by(created_at.asc())
RECURSIVE SelectClass(_, _)
SelectClass(devs, flag) ==
    IF devs = <<>> THEN <<>>
    ELSE IF Head(devs).is_extra = flag
         THEN <<Head(devs)>> \o SelectClass(Tail(devs), flag)
         ELSE SelectClass(Tail(devs), flag)

\* Python's seq[q:]
SliceFrom(seq, q) ==
    LET n == Len(seq)
        start == IF q < 0 THEN (IF n + q < 0 THEN 0 ELSE n + q)
                 ELSE (IF q > n THEN n ELSE q)
    IN  SubSeq(seq, start + 1, n)

\* a trim that removes the oldest excess base devices
BaseToRemove_OldestFirst(base_devices, base_active, base_quota) ==
    IF ~base_active THEN base_devices
    ELSE IF Len(base_devices) > base_quota
         THEN SubSeq(base_devices, 1, Len(base_devices) - base_quota)
    ELSE <<>>

\* a trim that leaves one base device more than the quota
BaseToRemove_KeepOneMore(base_devices, base_active, base_quota) ==
    IF ~base_active THEN base_devices
    ELSE IF Len(base_devices) > base_quota + 1 THEN SliceFrom(base_devices, base_quota + 1)
    ELSE <<>>

\* a trim that removes only the newest base device of an account over quota
BaseToRemove_NewestOnly(base_devices, base_active, base_quota) ==
    IF ~base_active THEN base_devices
    ELSE IF Len(base_devices) > base_quota THEN SliceFrom(base_devices, Len(base_devices) - 1)
    ELSE <<>>

\* the base branch: `if not base_active` all, else the rows beyond base_quota
BaseToRemove(base_devices, base_active, base_quota) ==
    IF ~base_active THEN base_devices
    ELSE IF Len(base_devices) > base_quota THEN SliceFrom(base_devices, base_quota)
    ELSE <<>>

\* the add-on branch: `if extra_active_count <= 0` all, else the rows beyond it
ExtraToRemove(extra_devices, extra_active_count) ==
    IF extra_active_count <= 0 THEN extra_devices
    ELSE IF Len(extra_devices) > extra_active_count
         THEN SliceFrom(extra_devices, extra_active_count)
    ELSE <<>>

\* session.delete(d) for every d of `gone`, then commit
RECURSIVE DeleteRows(_, _)
DeleteRows(devs, gone) ==
    IF devs = <<>> THEN <<>>
    ELSE IF Head(devs).id \in gone THEN DeleteRows(Tail(devs), gone)
         ELSE <<Head(devs)>> \o DeleteRows(Tail(devs), gone)

\* an enforcer that trims a class only while its window is active
EnforceDeletes_ActiveOnly(devs, user, t) ==
    LET base_active == WindowActive(user.subscription_until, t)
        extra_active == WindowActive(user.extra_devices_until, t)
        gone_base  == IF base_active
                      THEN BaseToRemove(SelectClass(devs, FALSE), TRUE, user.device_quota)
                      ELSE <<>>
        gone_extra == IF extra_active /\ user.extra_devices_count > 0
                      THEN ExtraToRemove(SelectClass(devs, TRUE), user.extra_devices_count)
                      ELSE <<>>
    IN  Ids(gone_base) \cup Ids(gone_extra)

\* an enforcer for which add-on slots count only while the base window is active
EnforceDeletes_AddonNeedsBase(devs, user, t) ==
    LET base_active == WindowActive(user.subscription_until, t)
        base_quota  == IF base_active THEN user.device_quota ELSE 0
        extra_active_count ==
            IF base_active /\ WindowActive(user.extra_devices_until, t)
            THEN user.extra_devices_count ELSE 0
        gone_base  == BaseToRemove(SelectClass(devs, FALSE), base_active, base_quota)
        after_base == DeleteRows(devs, Ids(gone_base))
        gone_extra == ExtraToRemove(SelectClass(after_base, TRUE), extra_active_count)
    IN  Ids(gone_base) \cup Ids(gone_extra)

\* the ids enforce_user_devices(session, wg_client, user) deletes at time t
EnforceDeletes(devs, user, t) ==
    LET base_active == WindowActive(user.subscription_until, t)
        base_quota  == IF base_active THEN user.device_quota ELSE 0
        extra_active_count ==
            IF WindowActive(user.extra_devices_until, t)
            THEN user.extra_devices_count ELSE 0
        gone_base  == BaseToRemove(SelectClass(devs, FALSE), base_active, base_quota)
        after_base == DeleteRows(devs, Ids(gone_base))
        gone_extra == ExtraToRemove(SelectClass(after_base, TRUE), extra_active_count)
    IN  Ids(gone_base) \cup Ids(gone_extra)

DeviceRow(id, is_extra, node_id) == [id |-> id, is_extra |-> is_extra, node_id |-> node_id]

DeviceLists ==
    UNION {[1..n -> BOOLEAN] : n \in 0..MaxDevices}

EnforceInit ==
    /\ now = 0
    /\ \E sub \in {None} \cup 1..MaxDay, quota \in 0..MaxQuota,
          ext \in {None} \cup 1..MaxDay, cnt \in 0..MaxQuota :
          users = [id \in UserIds |->
                     IF id = 1 THEN UserRow(0, sub, quota, ext, cnt, None) ELSE ReferrerRow]
    /\ \E flags \in DeviceLists :
          /\ devices = [i \in DOMAIN flags |->
                           DeviceRow(i, flags[i], IF flags[i] THEN None ELSE 1)]
          /\ nodes = <<NodeRow(Cardinality({i \in DOMAIN flags : ~flags[i]}),
                               node_max_capacity)>>
    /\ tariffs = <<TariffRow(30, 2, 30000)>>
    /\ payments = <<>>
    /\ EnforceIdle /\ PayIdle
    /\ wg_up = TRUE /\ peers = DOMAIN devices
    /\ last = NoOp

\* the clock moves on by a day
Tick ==
    /\ now < MaxDay
    /\ now' = now + 1
    /\ last' = NoOp
    /\ UNCHANGED <<dbVars, enfVars, wgVars, payVars>>

\* admin:card:set_quota
AdminSetQuota(quota) ==
    /\ quota # users[1].device_quota
    /\ users' = [users EXCEPT ![1].device_quota = IF quota < 0 THEN 0 ELSE quota]
    /\ last' = NoOp
    /\ UNCHANGED <<tariffs, payments, devices, nodes, now, enfVars, wgVars, payVars>>

\* admin:card:deactivate
AdminDeactivate ==
    /\ users[1].subscription_until # None \/ users[1].device_quota # 0
    /\ users' = [users EXCEPT ![1].subscription_until = None, ![1].device_quota = 0]
    /\ last' = NoOp
    /\ UNCHANGED <<tariffs, payments, devices, nodes, now, enfVars, wgVars, payVars>>

\* sync_access_loop: `select(M.User)` at the start of a pass
SyncLoad ==
    /\ sync_pc = "sleep"
    /\ sync_pc' = "loaded"
    /\ sync_users' = users
    /\ last' = NoOp
    /\ UNCHANGED <<dbVars, now, enforced, payVars, wgVars>>

\* the devices of a class: how many, and their ids
CountClass(devs, flag) == Cardinality({i \in DOMAIN devs : devs[i].is_extra = flag})
ClassIds(devs, flag) == {devs[i].id : i \in {j \in DOMAIN devs : devs[j].is_extra = flag}}

\* what wg_client.delete_client can do for a peer
PeerOutcomes == {"ok", "missing", "error"}

\* delete_client for the peer of device d: the server cannot be reached; every
\* endpoint variant answers 404 for a peer that is gone ("All endpoint variants
\* failed"); or the peer is deleted
DeleteClient(d) ==
    IF ~wg_up THEN "error" ELSE IF d \notin peers THEN "missing" ELSE "ok"

\* a helper that lets the failures of delete_client through
DeletePeerSafe_Raises(outcome) == outcome = "ok"

\* _delete_peer_safe returns normally: `except Exception: pass`
DeletePeerSafe(outcome) == outcome \in PeerOutcomes

\* enforce_user_devices(session, wg_client, u) for the selected row of account 1:
\* for every selected device delete_client is called (the server cannot be
\* reached, or the peer is missing, or the peer is deleted) and the row is
\* deleted; each class is committed after its loop
EnforceUserDevices ==
    /\ sync_pc = "loaded"
    /\ LET user == sync_users[1]
           gone == EnforceDeletes(devices, user, now)
       IN    LET outcome(d) == DeleteClient(d)
                 gone_base  == gone \cap ClassIds(devices, FALSE)
                 gone_extra == gone \cap ClassIds(devices, TRUE)
                 base_done  == \A d \in gone_base : DeletePeerSafe(outcome(d))
                 extra_done == base_done /\ \A d \in gone_extra : DeletePeerSafe(outcome(d))
                 removed == (IF base_done THEN gone_base ELSE {})
                            \cup (IF extra_done THEN gone_extra ELSE {})
             IN  /\ devices' = DeleteRows(devices, removed)
                 /\ peers' = IF wg_up THEN peers \ gone ELSE peers
                 /\ wg_up' = wg_up
                 /\ enforced' = [op |-> "enforce", user |-> user, at |-> now,
                                 after |-> DeleteRows(devices, removed)]
                 /\ last' = [op |-> "enforce", user |-> user, at |-> now,
                             before |-> devices, deleted |-> gone, prev |-> enforced]
    /\ sync_pc' = "sleep"
    /\ sync_users' = <<>>
    /\ UNCHANGED <<users, tariffs, payments, nodes, now, payVars>>

EnforceNext ==
    \/ Tick
    \/ \E q \in 0..MaxQuota : AdminSetQuota(q)
    \/ SyncLoad
    \/ EnforceUserDevices

SpecEnforce == EnforceInit /\ [][EnforceNext]_vars

\* the sync loop keeps running: after every sleep a pass starts, and a pass
\* that has loaded the accounts reaches the account
EnforceLiveInit ==
    /\ now = 0
    /\ \E sub \in 1..MaxDay, ext \in {1, MaxDay} :
          users = [id \in UserIds |->
                     IF id = 1 THEN UserRow(0, sub, MaxQuota, ext, 1, None) ELSE ReferrerRow]
    /\ devices = <<DeviceRow(1, FALSE, 1), DeviceRow(2, FALSE, 1), DeviceRow(3, TRUE, None)>>
    /\ nodes = <<NodeRow(2, node_max_capacity)>>
    /\ tariffs = <<TariffRow(30, 2, 30000)>>
    /\ payments = <<>>
    /\ EnforceIdle /\ PayIdle
    /\ wg_up = TRUE /\ peers = DOMAIN devices
    /\ last = NoOp

EnforceLiveNext == EnforceNext \/ AdminDeactivate

SpecEnforceLive ==
    /\ EnforceLiveInit /\ [][EnforceLiveNext]_vars
    /\ WF_vars(SyncLoad)
    /\ WF_vars(EnforceUserDevices)

\* the reference entitlement of a row at time t
baseQuota(user, t) ==
    IF user.subscription_until # None /\ user.subscription_until > t
    THEN user.device_quota ELSE 0
addonQuota(user, t) ==
    IF user.extra_devices_until # None /\ user.extra_devices_until > t
    THEN user.extra_devices_count ELSE 0

SecondRunUnchanged ==
    /\ last.op = "enforce" /\ last.prev.op = "enforce"
    /\ last.user = last.prev.user
    /\ last.before = last.prev.after

\* C6 as stated: a second run on an account whose windows, counters and
\* device set did not change since the first run deletes no device.
C6_IdempotentTrim_Original == SecondRunUnchanged => last.deleted = {}

\* C6 amended: a second run on an account whose windows, counters and device
\* set did not change since the first run, and neither of whose windows
\* expired between the two runs, deletes no device.
C6_IdempotentTrim ==
    ( /\ SecondRunUnchanged
      /\ WindowActive(last.user.subscription_until, last.at)
            = WindowActive(last.user.subscription_until, last.prev.at)
      /\ WindowActive(last.user.extra_devices_until, last.at)
            = WindowActive(last.user.extra_devices_until, last.prev.at) )
    => last.deleted = {}

\* a second run found the account as the first run left it, at its quota and
\* with both windows still active
C6_Witness ==
    /\ SecondRunUnchanged
    /\ Len(last.prev.after) = 2 /\ Len(last.before) = 2
    /\ baseQuota(last.user, last.at) = 1 /\ addonQuota(last.user, last.at) = 1
    /\ last.deleted = {}

\* C7: when the base window is inactive and the add-on window is active with
\* no more add-on devices than extra_devices_count, a run deletes every base
\* device and no add-on device.
C7_BaseExpiredAddonKept ==
    ( /\ last.op = "enforce"
      /\ ~WindowActive(last.user.subscription_until, last.at)
      /\ WindowActive(last.user.extra_devices_until, last.at)
      /\ CountClass(last.before, TRUE) <= last.user.extra_devices_count )
    => /\ last.deleted = ClassIds(last.before, FALSE)
       /\ ClassIds(devices, TRUE) = ClassIds(last.before, TRUE)

\* the base window expired with 2 base devices and 1 add-on device
C7_Witness ==
    /\ last.op = "enforce"
    /\ last.user.subscription_until # None
    /\ last.user.subscription_until <= last.at
    /\ WindowActive(last.user.extra_devices_until, last.at)
    /\ CountClass(last.before, FALSE) = 2 /\ CountClass(last.before, TRUE) = 1
    /\ Len(devices) = 1 /\ devices[1].is_extra

\* =====================================================================
\* Payments: the update handlers that start a purchase, the per-account
\* watcher auto_check_payment, the sweep poll_pending_payments and the
\* gateway.  Application.builder().build() leaves concurrent_updates off,
\* so one update handler runs at a time; watchers and the sweep are tasks
\* of their own and interleave with it at every await.
\* =====================================================================
\* info.get("status", "pending"): the payment statuses of the gateway's API
GatewayStatuses == {"pending", "waiting_for_capture", "succeeded", "canceled"}

TaskRow(payment_id) ==
    [payment_id |-> payment_id, pc |-> "top", must_cancel |-> FALSE, expired |-> FALSE,
     stored |-> "none", status |-> "none", session |-> EmptySession]

\* the payments row with this yk_payment_id
PaymentOf(yk_id) == CHOOSE i \in DOMAIN payments : payments[i].yk_payment_id = yk_id

Running(w) == tasks[w].pc # "done"

\* a task that leaves its registry entry behind
Cleanup_Never(w) == user_payment_tasks

\* `finally`: the task removes the registry entry only if it is its own
Cleanup(w) == IF user_payment_tasks = w THEN None ELSE user_payment_tasks

\* ------------------------------------------------------------- gateway
\* the customer pays or gives up
YkResolve(i, status) ==
    /\ \/ yk[i] = "pending"
       \/ yk[i] = "waiting_for_capture" /\ status \in {"succeeded", "canceled"}
    /\ yk' = [yk EXCEPT ![i] = status]
    /\ UNCHANGED <<dbVars, now, enfVars, wgVars, last, tasks, user_payment_tasks, hpc, sweep, applied>>

\* ------------------------------------------------------------- watcher
CanStep(w) == Running(w) /\ ~tasks[w].must_cancel

\* the loop's clock passes start_time + timeout (600 s) while the task lives
TimeoutElapses(w) ==
    /\ Running(w) /\ ~tasks[w].expired
    /\ tasks' = [tasks EXCEPT ![w].expired = TRUE]
    /\ UNCHANGED <<dbVars, now, enfVars, wgVars, last, yk, user_payment_tasks, hpc, sweep, applied>>

\* a loop that never looks at the clock
TimedOut_Never(w) == FALSE

\* if current_time - start_time > timeout
TimedOut(w) == tasks[w].expired

\* a timeout that marks the watcher's payment canceled
TimedOutPayments_Canceled(w) ==
    [payments EXCEPT ![PaymentOf(tasks[w].payment_id)].status = "canceled"]

\* the timeout branch selects the payment and writes nothing
TimedOutPayments(w) == payments

\* top of the loop, the timeout has elapsed: tell the user and return
WatcherTimeout(w) ==
    /\ CanStep(w) /\ tasks[w].pc = "top" /\ TimedOut(w)
    /\ tasks' = [tasks EXCEPT ![w].pc = "notify"]
    /\ payments' = TimedOutPayments(w)
    /\ UNCHANGED <<users, tariffs, devices, nodes, now, enfVars, wgVars, last, yk,
                   user_payment_tasks, hpc, sweep, applied>>

\* select(Payment).where(yk_payment_id == payment_id) in a new session
WatcherSelect(w) ==
    /\ CanStep(w) /\ tasks[w].pc = "top" /\ ~TimedOut(w)
    /\ tasks' = [tasks EXCEPT ![w].pc = "get",
                              ![w].stored = payments[PaymentOf(tasks[w].payment_id)].status]
    /\ UNCHANGED <<dbVars, now, enfVars, wgVars, last, yk, user_payment_tasks, hpc, sweep, applied>>

\* where the watcher goes once yk_client.get_payment has answered `status`
\* for a row it read as `stored`: p.status = status, then the if/elif
WatcherBranch(stored, status) ==
    IF status = "succeeded" THEN "apply"
    ELSE IF status = "canceled" THEN "commit"
    ELSE "top"

\* a watcher that gives up at the first failed query
AfterQueryFailure_Stop(t) == [t EXCEPT !.pc = "done", !.stored = "none"]

\* `except Exception`: print, sleep 15, continue
AfterQueryFailure(t) == [t EXCEPT !.pc = "top", !.stored = "none"]

\* yk_client.get_payment raises
WatcherGetFails(w) ==
    /\ CanStep(w) /\ tasks[w].pc = "get"
    /\ tasks' = [tasks EXCEPT ![w] = AfterQueryFailure(@)]
    /\ UNCHANGED <<dbVars, now, enfVars, wgVars, yk, user_payment_tasks, hpc, sweep, applied>>

\* yk_client.get_payment answers the status
WatcherGetAnswers(w) ==
    /\ CanStep(w) /\ tasks[w].pc = "get"
    /\ LET status == yk[tasks[w].payment_id]
           next == WatcherBranch(tasks[w].stored, status)
       IN  tasks' = [tasks EXCEPT ![w].pc = next,
                                  ![w].status = IF next = "top" THEN "none" ELSE status,
                                  ![w].stored = IF next = "top" THEN "none" ELSE @]
    /\ UNCHANGED <<dbVars, now, enfVars, wgVars, yk, user_payment_tasks, hpc, sweep, applied>>

\* yk_client.get_payment: an error (sleep 15, continue) or the status
WatcherGetPayment(w) ==
    /\ WatcherGetFails(w) \/ WatcherGetAnswers(w)
    /\ UNCHANGED last

\* await _apply_successful_payment(session, p): the rows are read now
WatcherApply(w) ==
    /\ CanStep(w) /\ tasks[w].pc = "apply"
    /\ LET p == payments[PaymentOf(tasks[w].payment_id)]
       IN  tasks' = [tasks EXCEPT ![w].pc = "commit",
                                  ![w].session = ApplySuccessfulPayment(EmptySession, users, p, now)]
    /\ UNCHANGED <<dbVars, now, enfVars, wgVars, last, yk, user_payment_tasks, hpc, sweep, applied>>

\* await session.commit(): the status and the account rows are written
WatcherCommit(w) ==
    /\ CanStep(w) /\ tasks[w].pc = "commit"
    /\ LET i == PaymentOf(tasks[w].payment_id)
       IN  /\ payments' = [payments EXCEPT ![i].status = tasks[w].status]
           /\ users' = Flush(users, tasks[w].session)
           /\ applied' = [applied EXCEPT ![i] = IF tasks[w].status = "succeeded" THEN @ + 1 ELSE @]
    /\ tasks' = [tasks EXCEPT ![w].pc = "notify", ![w].session = EmptySession]
    /\ UNCHANGED <<tariffs, devices, nodes, now, enfVars, wgVars, last, yk, user_payment_tasks, hpc, sweep>>

\* the notification is out: return, through `finally`
WatcherReturn(w) ==
    /\ CanStep(w) /\ tasks[w].pc = "notify"
    /\ tasks' = [tasks EXCEPT ![w].pc = "done", ![w].stored = "none", ![w].status = "none"]
    /\ user_payment_tasks' = Cleanup(w)
    /\ UNCHANGED <<dbVars, now, enfVars, wgVars, last, yk, hpc, sweep, applied>>

\* a cancellation that marks the watcher's payment canceled
CancelledPayments_Marked(w) ==
    [payments EXCEPT ![PaymentOf(tasks[w].payment_id)].status = "canceled"]

\* what a cancellation does to the stored row of the watcher's payment
CancelledPayments(w) == payments

\* a cancellation that writes out what the session holds
CancelledUsers_Flushed(w) == Flush(users, tasks[w].session)

\* the account rows after a cancellation: the session is closed, not committed
CancelledUsers(w) == users

\* CancelledError is raised at the await the task is suspended in: the open
\* session is closed without a commit, then `finally`
WatcherCancelledStep(w) ==
    /\ Running(w) /\ tasks[w].must_cancel
    /\ tasks' = [tasks EXCEPT ![w].pc = "done", ![w].stored = "none", ![w].status = "none",
                              ![w].session = EmptySession]
    /\ user_payment_tasks' = Cleanup(w)
    /\ payments' = CancelledPayments(w)
    /\ users' = CancelledUsers(w)
    /\ UNCHANGED <<tariffs, devices, nodes, now, enfVars, wgVars, yk, hpc, sweep, applied>>

WatcherCancelled(w) == WatcherCancelledStep(w) /\ UNCHANGED last

Watcher(w) ==
    \/ WatcherTimeout(w)
    \/ WatcherSelect(w)
    \/ WatcherGetPayment(w)
    \/ WatcherApply(w)
    \/ WatcherCommit(w)
    \/ WatcherReturn(w)
    \/ WatcherCancelled(w)

\* --------------------------------------------------------------- sweep
\* select(Payment).where(status == "pending").order_by(created_at).limit(20)
RECURSIVE PendingFrom(_)
PendingFrom(i) ==
    IF i > Len(payments) THEN <<>>
    ELSE IF payments[i].status = "pending" THEN <<i>> \o PendingFrom(i + 1)
    ELSE PendingFrom(i + 1)

PendingBatch ==
    LET all == PendingFrom(1)
    IN  IF Len(all) > sweep_limit THEN SubSeq(all, 1, sweep_limit) ELSE all

\* `if status != p.status`
SweepChanged(stored, status) == status # stored

SweepAdvance(sw) ==
    IF sw.i + 1 > Len(sw.batch) THEN [sw EXCEPT !.pc = "commit", !.i = 0]
    ELSE [sw EXCEPT !.pc = "get", !.i = sw.i + 1]

\* the round starts: the batch is selected in a new session
SweepSelectStep ==
    /\ sweep.pc = "idle"
    /\ PendingBatch # <<>>
    /\ sweep' = [pc |-> "get", batch |-> PendingBatch, i |-> 1,
                 session |-> EmptySession, changed |-> <<>>]
    /\ UNCHANGED <<dbVars, now, enfVars, wgVars, yk, tasks, user_payment_tasks, hpc, applied>>

SweepSelect == SweepSelectStep /\ UNCHANGED last

\* a round that stops querying at the first failure and commits what it has
SweepAfterFailure_Abort(sw) == [sw EXCEPT !.pc = "commit", !.i = 0]

\* `except Exception: continue`
SweepAfterFailure(sw) == SweepAdvance(sw)

\* yk_client.get_payment(p.yk_payment_id) raises
SweepGetFails ==
    /\ sweep.pc = "get"
    /\ sweep' = SweepAfterFailure(sweep)
    /\ UNCHANGED <<dbVars, now, enfVars, wgVars, yk, tasks, user_payment_tasks, hpc, applied>>

\* yk_client.get_payment answers: `if status != p.status`, the row is
\* changed in memory and a succeeded payment goes on to its settlement
SweepGetAnswers ==
    /\ sweep.pc = "get"
    /\ LET i == sweep.batch[sweep.i]
           status == yk[payments[i].yk_payment_id]
       IN  \/ /\ SweepChanged("pending", status)
              /\ LET sw == [sweep EXCEPT !.changed = Extend(sweep.changed, i, status)]
                 IN  sweep' = IF status = "succeeded" THEN [sw EXCEPT !.pc = "apply"]
                              ELSE SweepAdvance(sw)
           \/ /\ ~SweepChanged("pending", status)
              /\ sweep' = SweepAdvance(sweep)
    /\ UNCHANGED <<dbVars, now, enfVars, wgVars, yk, tasks, user_payment_tasks, hpc, applied>>

\* yk_client.get_payment(p.yk_payment_id): an error (continue) or the status
SweepGetPayment ==
    /\ SweepGetFails \/ SweepGetAnswers
    /\ UNCHANGED last

\* await _apply_successful_payment(session, p) in the sweep's session
SweepApply ==
    /\ sweep.pc = "apply"
    /\ LET i == sweep.batch[sweep.i]
           p == [payments[i] EXCEPT !.status = "succeeded"]
       IN  sweep' = SweepAdvance([sweep EXCEPT
                        !.session = ApplySuccessfulPayment(sweep.session, users, p, now)])
    /\ UNCHANGED <<dbVars, now, enfVars, wgVars, last, yk, tasks, user_payment_tasks, hpc, applied>>

\* the one commit at the end of the batch
SweepCommit ==
    /\ sweep.pc = "commit"
    /\ payments' = [i \in DOMAIN payments |->
                      IF i \in DOMAIN sweep.changed
                      THEN [payments[i] EXCEPT !.status = sweep.changed[i]]
                      ELSE payments[i]]
    /\ users' = Flush(users, sweep.session)
    /\ applied' = [i \in DOMAIN applied |->
                      IF i \in DOMAIN sweep.changed /\ sweep.changed[i] = "succeeded"
                      THEN applied[i] + 1 ELSE applied[i]]
    /\ sweep' = SweepIdle
    /\ UNCHANGED <<tariffs, devices, nodes, now, enfVars, wgVars, last, yk, tasks, user_payment_tasks, hpc>>

\* ------------------------------------------------------------ handlers
\* every purchase entry point stops creating records at the model's bound
MayCreatePayment == Len(payments) < MaxPayments

\* asyncio.create_task(auto_check_payment(...)) stored in the registry
RegisterWatcher(payment_id) ==
    /\ tasks' = Append(tasks, TaskRow(payment_id))
    /\ user_payment_tasks' = Len(tasks) + 1

\* a caller that goes on without awaiting the cancelled task
OldTaskAwaited_Skipped(old) == TRUE

\* `await old_task` has returned
OldTaskAwaited(old) == tasks[old].pc = "done"

\* tariff:buy up to the gateway call: the tariff exists and is active, and
\* the purchase is refused (nothing changes) while the base window is active
TariffBuy(t) ==
    /\ hpc.pc = "idle" /\ MayCreatePayment
    /\ tariffs[t].is_active
    /\ ~WindowActive(users[1].subscription_until, now)
    /\ hpc' = [pc |-> "create", purpose |-> "TARIFF", tariff_id |-> t]
    /\ UNCHANGED <<dbVars, now, enfVars, wgVars, last, yk, tasks, user_payment_tasks, sweep, applied>>

\* select(Node).where(is_active, load < max_capacity).order_by(load): the
\* rows that may come first
BestNodes ==
    LET ok == {n \in DOMAIN nodes : nodes[n].is_active /\ nodes[n].load < nodes[n].max_capacity}
    IN  {n \in ok : \A m \in ok : nodes[n].load <= nodes[m].load}

\* a handler that lets an account with an active add-on window through
DeviceAddAllowed_AddonEnough(u, t) ==
    WindowActive(u.subscription_until, t) \/ WindowActive(u.extra_devices_until, t)

\* base_active = bool(u.subscription_until and u.subscription_until > now)
DeviceAddAllowed(u, t) == WindowActive(u.subscription_until, t)

\* a handler that leaves the node's load as it was
LoadAfterAdd_Same(load) == load

\* node.load += 1
LoadAfterAdd(load) == load + 1

\* a handler that goes on after a failed create_client
CreateClientOk_Always == TRUE

\* wg_client.create_client: the peer of the new device exists afterwards, or
\* the call raises (the server cannot be reached) and the handler is left
CreateClientOk == wg_up

\* a handler that hands out an add-on device whatever the add-on quota
AddonSlotFree_Always(extra_count, extra_active_count) == TRUE

\* if extra_count < extra_active_count
AddonSlotFree(extra_count, extra_active_count) == extra_count < extra_active_count

\* the primary key of the next devices row (ids are handed out in creation
\* order; the id also names the row's peer on the server)
NewDeviceId ==
    LET used == Ids(devices) \cup peers \cup {0}
    IN  1 + CHOOSE m \in used : \A k \in used : k <= m

\* the model stops allocating at this id
MaxDeviceId == MaxDevices + 1

\* device:add (handlers.py 1138-1226): refused without an active base window;
\* a base device on the node pick_best_node returns; else an add-on device;
\* else the purchase of a slot.  A branch that returns early or raises before
\* its commit leaves everything as it was.
DeviceAddHandler ==
    /\ hpc.pc = "idle" /\ NewDeviceId <= MaxDeviceId
    /\ LET u == users[1]
           base_count == Cardinality({i \in DOMAIN devices : ~devices[i].is_extra})
           extra_count == Cardinality({i \in DOMAIN devices : devices[i].is_extra})
           base_quota == u.device_quota
           extra_active_count ==
               IF WindowActive(u.extra_devices_until, now) THEN u.extra_devices_count ELSE 0
           new_id == NewDeviceId
       IN  IF ~DeviceAddAllowed(u, now)
           THEN UNCHANGED <<dbVars, wgVars, hpc>>
           ELSE IF base_count < base_quota
           THEN IF BestNodes = {} \/ ~CreateClientOk
                THEN UNCHANGED <<dbVars, wgVars, hpc>>
                ELSE \E n \in BestNodes :
                        /\ devices' = Append(devices, [id |-> new_id,
                                                       is_extra |-> FALSE, node_id |-> n])
                        /\ nodes' = [nodes EXCEPT ![n].load = LoadAfterAdd(@)]
                        /\ peers' = peers \cup {new_id}
                        /\ UNCHANGED <<users, tariffs, payments, wg_up, hpc>>
           ELSE IF AddonSlotFree(extra_count, extra_active_count)
           THEN IF ~CreateClientOk
                THEN UNCHANGED <<dbVars, wgVars, hpc>>
                ELSE /\ devices' = Append(devices, [id |-> new_id,
                                                    is_extra |-> TRUE, node_id |-> None])
                     /\ peers' = peers \cup {new_id}
                     /\ UNCHANGED <<users, tariffs, payments, nodes, wg_up, hpc>>
           ELSE /\ MayCreatePayment
                /\ hpc' = [pc |-> "create", purpose |-> "EXTRA_DEVICE", tariff_id |-> None]
                /\ UNCHANGED <<dbVars, wgVars>>
    /\ UNCHANGED <<now, enfVars, yk, tasks, user_payment_tasks, sweep, applied>>

DeviceAdd == DeviceAddHandler /\ UNCHANGED last

\* yk_client.create_payment fails or gives no confirmation url (nothing is
\* stored); or the Payment row is committed, the registered watcher, if any,
\* is cancelled and awaited, and the new watcher is registered
CreatePayment ==
    /\ hpc.pc = "create"
    /\ \/ /\ hpc' = HandlerIdle
          /\ UNCHANGED <<dbVars, yk, tasks, user_payment_tasks, applied>>
       \/ /\ yk' = Append(yk, "pending")
          /\ payments' = Append(payments,
                PaymentRow(Len(yk) + 1, "pending", hpc.purpose,
                           IF hpc.purpose = "TARIFF" THEN tariffs[hpc.tariff_id].price
                           ELSE device_extra_price, hpc.tariff_id))
          /\ applied' = Append(applied, 0)
          /\ IF user_payment_tasks # None
             THEN /\ tasks' = [tasks EXCEPT ![user_payment_tasks].must_cancel = TRUE]
                  /\ hpc' = [pc |-> "await_old", purpose |-> hpc.purpose,
                             old |-> user_payment_tasks, payment_id |-> Len(yk) + 1]
                  /\ UNCHANGED user_payment_tasks
             ELSE /\ RegisterWatcher(Len(yk) + 1)
                  /\ hpc' = HandlerIdle
          /\ UNCHANGED <<users, tariffs, devices, nodes>>
    /\ UNCHANGED <<now, enfVars, wgVars, last, sweep>>

AwaitOldTask ==
    /\ hpc.pc = "await_old"
    /\ OldTaskAwaited(hpc.old)
    /\ RegisterWatcher(hpc.payment_id)
    /\ hpc' = HandlerIdle
    /\ UNCHANGED <<dbVars, now, enfVars, wgVars, last, yk, sweep, applied>>

\* a debit that takes the price twice
Debit_Twice(balance, price) == balance - 2 * price

\* u.balance = Decimal(u.balance) - price
Debit(balance, price) == balance - price

\* a handler that debits whatever the balance is
PayBalanceAllowed_Always(purpose, u, price) == TRUE

\* `if Decimal(u.balance) < price: ... return` is not taken
PayBalanceAllowed(purpose, u, price) == u.balance >= price

\* paybalance:<purpose> from the row u it selected: the balance is debited and
\* a succeeded Payment with no gateway id is committed; then
\* cancel_user_payment_check
PayBalanceFrom(purpose, t, u) ==
    LET price == IF purpose = "TARIFF" THEN tariffs[t].price ELSE device_extra_price
        u2 == [u EXCEPT !.balance = Debit(u.balance, price)]
        session == [orig |-> <<u2>>, mem |-> <<u2>>]
        p == PaymentRow(None, "succeeded", purpose, price,
                        IF purpose = "TARIFF" THEN t ELSE None)
    IN  /\ PayBalanceAllowed(purpose, u, price)
        /\ users' = [users EXCEPT ![1].balance = u2.balance]
        /\ payments' = Append(payments, p)
        /\ applied' = Append(applied, 0)
        /\ IF user_payment_tasks # None
           THEN /\ tasks' = [tasks EXCEPT ![user_payment_tasks].must_cancel = TRUE]
                /\ hpc' = [pc |-> "pb_await", purpose |-> purpose, old |-> user_payment_tasks,
                           pid |-> Len(payments) + 1, session |-> session]
           ELSE /\ tasks' = tasks
                /\ hpc' = [pc |-> "pb_apply", purpose |-> purpose,
                           pid |-> Len(payments) + 1, session |-> session]
        /\ UNCHANGED <<tariffs, devices, nodes, now, enfVars, wgVars, yk, user_payment_tasks, sweep>>

PayBalance(purpose, t) ==
    /\ hpc.pc = "idle" /\ MayCreatePayment
    /\ PayBalanceFrom(purpose, t, users[1])
    /\ UNCHANGED last

PayBalanceAwait ==
    /\ hpc.pc = "pb_await"
    /\ OldTaskAwaited(hpc.old)
    /\ hpc' = [pc |-> "pb_apply", purpose |-> hpc.purpose, pid |-> hpc.pid,
               session |-> hpc.session]
    /\ UNCHANGED <<dbVars, now, enfVars, wgVars, last, yk, tasks, user_payment_tasks, sweep, applied>>

\* await _apply_successful_payment(session, p) in the handler's session
PayBalanceApply ==
    /\ hpc.pc = "pb_apply"
    /\ hpc' = [hpc EXCEPT !.pc = "pb_commit",
                          !.session = ApplySuccessfulPayment(hpc.session, users,
                                                             payments[hpc.pid], now)]
    /\ UNCHANGED <<dbVars, now, enfVars, wgVars, last, yk, tasks, user_payment_tasks, sweep, applied>>

PayBalanceCommit ==
    /\ hpc.pc = "pb_commit"
    /\ users' = Flush(users, hpc.session)
    /\ applied' = [applied EXCEPT ![hpc.pid] = @ + 1]
    /\ hpc' = HandlerIdle
    /\ UNCHANGED <<tariffs, payments, devices, nodes, now, enfVars, wgVars, last, yk, tasks,
                   user_payment_tasks, sweep>>

\* an await between the two commits of paybalance raises (the database call
\* of _apply_successful_payment or the second commit): the handler ends, its
\* session is closed, and what the first commit wrote stays
PayBalanceFails ==
    /\ hpc.pc \in {"pb_apply", "pb_commit"}
    /\ hpc' = HandlerIdle
    /\ UNCHANGED <<dbVars, now, enfVars, wgVars, last, yk, tasks, user_payment_tasks, sweep, applied>>

PayInit ==
    /\ now = 0
    /\ \E bal \in {0, 30000} :
          users = [id \in UserIds |->
                     IF id = 1 THEN UserRow(bal, None, 0, None, 0, 2) ELSE ReferrerRow]
    /\ tariffs = <<TariffRow(30, 1, 30000)>>
    /\ payments = <<>>
    /\ devices = <<>> /\ nodes = <<NodeRow(0, node_max_capacity)>>
    /\ EnforceIdle /\ PayIdle
    /\ wg_up = TRUE /\ peers = DOMAIN devices
    /\ last = NoOp

PayNext ==
    \/ \E i \in DOMAIN yk, status \in GatewayStatuses \ {"pending"} : YkResolve(i, status)
    \/ \E w \in DOMAIN tasks : Watcher(w)
    \/ \E w \in DOMAIN tasks : TimeoutElapses(w)
    \/ SweepSelect \/ SweepGetPayment \/ SweepApply \/ SweepCommit
    \/ \E t \in DOMAIN tariffs : TariffBuy(t)
    \/ DeviceAdd
    \/ CreatePayment
    \/ AwaitOldTask
    \/ \E t \in DOMAIN tariffs : PayBalance("TARIFF", t)
    \/ PayBalance("EXTRA_DEVICE", None)
    \/ PayBalanceAwait \/ PayBalanceApply \/ PayBalanceCommit
    \/ PayBalanceFails

SpecPay == PayInit /\ [][PayNext]_vars

\* ------------------------------------------------- claims of SpecPay
RunningWatchers == {w \in DOMAIN tasks : Running(w)}

\* C1: for every payment record the settlement effect is committed exactly
\* once after the gateway reports succeeded, under any interleaving of its
\* watcher and the sweep: never twice, and not zero times once the stored
\* status is succeeded.
C1_SettledExactlyOnce ==
    \A i \in DOMAIN payments :
        /\ applied[i] <= 1
        /\ (payments[i].status = "succeeded" /\ hpc.pc = "idle") => applied[i] = 1

\* C2: a watcher poll that read the stored status as succeeded and is told
\* succeeded by the gateway does not go on to settlement, and no step of
\* that poll changes an account row.
C2_NoResettlement ==
    [][\A w \in DOMAIN tasks :
          (tasks[w].stored = "succeeded" /\ tasks'[w] # tasks[w])
              => (tasks'[w].pc # "apply" /\ users' = users)]_vars

\* C3: in every reachable state at most one payment watcher task of the
\* account is running.
C3_OneRunningWatcher == Cardinality(RunningWatchers) <= 1

\* a second watcher is running after the first one was cancelled by a new purchase
C3_Witness ==
    /\ Len(tasks) >= 2
    /\ tasks[1].must_cancel /\ ~Running(1)
    /\ Running(2) /\ user_payment_tasks = 2

\* C4: when a purchase for payment Y starts while the watcher of payment X is
\* running, that watcher has terminated before Y's watcher is registered, and
\* neither the cancel request nor the unwinding of the cancelled watcher
\* changes the stored status of payment X.
C4_CancelBeforeRegister ==
    [][/\ (Len(tasks') > Len(tasks)) => RunningWatchers = {}
       /\ \A w \in DOMAIN tasks :
             LET x == PaymentOf(tasks[w].payment_id)
             IN  ( (~tasks[w].must_cancel /\ tasks'[w].must_cancel) \/
                   (tasks[w].must_cancel /\ Running(w) /\ tasks'[w].pc = "done") )
                 => payments'[x].status = payments[x].status]_vars

\* Y's watcher is registered, X's watcher was cancelled while X was pending
\* and is done, and X is still pending
C4_Witness ==
    /\ Len(tasks) >= 2 /\ hpc.pc = "idle"
    /\ tasks[1].must_cancel /\ tasks[1].pc = "done"
    /\ tasks[2].pc = "top" /\ tasks[2].payment_id # tasks[1].payment_id
    /\ payments[PaymentOf(tasks[1].payment_id)].status = "pending"
    /\ yk[tasks[1].payment_id] = "pending"

\* C10: a base-subscription purchase attempted through tariff:buy or
\* paybalance:TARIFF while the base window is active is rejected: the handler
\* starts nothing, no Payment record is added, the balance is not debited and
\* subscription_until is not changed.
C10_ActivePurchaseRejected ==
    [][( /\ WindowActive(users[1].subscription_until, now)
         /\ hpc.pc = "idle" /\ hpc'.pc # "idle"
         /\ hpc'.purpose = "TARIFF" )
       => /\ hpc'.pc # "create"
          /\ Len(payments') = Len(payments)
          /\ users'[1].balance = users[1].balance
          /\ users'[1].subscription_until = users[1].subscription_until]_vars

\* C11: a balance-funded purchase with balance >= price appends a Payment
\* that is succeeded and has no gateway id, without a gateway call; it takes
\* exactly the price from the balance in its first commit and nothing more
\* afterwards; it registers no watcher; and when it completes the entitlement
\* has been applied once and no watcher of the account is running.
C11_BalancePurchase ==
    [][/\ (hpc.pc = "idle" /\ hpc'.pc \in {"pb_await", "pb_apply"}) =>
            LET pid == Len(payments) + 1
            IN  /\ Len(payments') = pid
                /\ payments'[pid].status = "succeeded"
                /\ payments'[pid].yk_payment_id = None
                /\ users[1].balance >= payments'[pid].amount
                /\ users'[1].balance = users[1].balance - payments'[pid].amount
                /\ yk' = yk /\ Len(tasks') = Len(tasks)
       /\ (hpc.pc \in {"pb_await", "pb_apply", "pb_commit"} /\ hpc' # hpc) =>
            /\ users'[1].balance = users[1].balance
            /\ payments' = payments
            /\ yk' = yk /\ Len(tasks') = Len(tasks)
       /\ (hpc.pc = "pb_commit" /\ hpc' # hpc /\ applied' # applied) =>
            /\ applied[hpc.pid] = 0 /\ applied'[hpc.pid] = 1
            /\ \A w \in DOMAIN tasks' : tasks'[w].pc = "done"]_vars

\* a balance purchase made while a watcher was running has completed: the
\* balance is spent, the entitlement is there, and the watcher is gone
C11_Witness ==
    /\ hpc.pc = "idle"
    /\ \E i \in DOMAIN payments :
          /\ payments[i].yk_payment_id = None /\ applied[i] = 1
          /\ payments[i].purpose = "EXTRA_DEVICE"
    /\ users[1].extra_devices_count = 1
    /\ users[1].balance = 30000 - device_extra_price
    /\ Len(tasks) = 1 /\ tasks[1].must_cancel /\ tasks[1].pc = "done"

\* C12: settlement never partially applies: in every persisted state a
\* payment is stored as succeeded (and the balance debited) if and only if
\* its entitlement change is persisted as well.
C12_NoPartialSettlement ==
    \A i \in DOMAIN payments : (payments[i].status = "succeeded") <=> (applied[i] >= 1)

\* C13: no step increments extra_devices_count or extends extra_devices_until
\* of an account whose subscription_until is absent or not in the future.
C13_NoAddonWithoutBase ==
    [][~WindowActive(users[1].subscription_until, now) =>
          /\ users'[1].extra_devices_count <= users[1].extra_devices_count
          /\ users'[1].extra_devices_until = users[1].extra_devices_until]_vars

\* the base devices whose node_id references node n
DevicesOn(n) == {i \in DOMAIN devices : ~devices[i].is_extra /\ devices[i].node_id = n}

\* C14: for every node, load equals the number of existing base devices
\* whose node_id references it, and is never negative.
C14_LoadMatchesDevices ==
    \A n \in DOMAIN nodes :
        nodes[n].load = Cardinality(DevicesOn(n)) /\ nodes[n].load >= 0

\* ------------------------------------------------- quota derivations
\* User.has_base_active / _has_base
has_base_active(u, t) == u.subscription_until # None /\ u.subscription_until > t

\* User.has_extra_active / _extra_active
has_extra_active(u, t) == u.extra_devices_until # None /\ u.extra_devices_until > t

\* User.total_quota
total_quota(u, t) ==
    LET base == u.device_quota
        extra == IF has_extra_active(u, t) THEN u.extra_devices_count ELSE 0
    IN  base + extra

\* int(u.device_quota or 0)
_base_quota(u) == u.device_quota

\* int(u.extra_devices_count or 0) if _extra_active(u) else 0
_extra_quota(u, t) == IF has_extra_active(u, t) THEN u.extra_devices_count ELSE 0

\* _has_extra: the window is active and the count is positive
_has_extra(u, t) == has_extra_active(u, t) /\ u.extra_devices_count > 0

QuotaRecord(op, u, t, base, extra, total) ==
    [op |-> op, user |-> u, at |-> t, base |-> base, extra |-> extra, total |-> total]

QuotaOps == {"total_quota", "devices_menu", "main_menu", "enforce", "device_add"}

QuotaInit ==
    /\ now \in 0..MaxDay
    /\ \E sub \in {None} \cup 0..MaxDay, quota \in 0..MaxQuota,
          ext \in {None} \cup 0..MaxDay, cnt \in 0..MaxQuota :
          users = [id \in UserIds |->
                     IF id = 1 THEN UserRow(0, sub, quota, ext, cnt, None) ELSE ReferrerRow]
    /\ tariffs = <<>> /\ payments = <<>> /\ devices = <<>> /\ nodes = <<>>
    /\ EnforceIdle /\ PayIdle
    /\ wg_up = TRUE /\ peers = DOMAIN devices
    /\ last = NoOp

\* build_user_card: u.total_quota()
UserTotalQuota ==
    /\ last' = QuotaRecord("total_quota", users[1], now, None, None, total_quota(users[1], now))
    /\ UNCHANGED <<dbVars, now, enfVars, wgVars, payVars>>

\* _render_devices_menu: base_q, extra_q, total_q
DevicesMenuQuota ==
    /\ LET u == users[1]
           base_q == _base_quota(u)
           extra_q == _extra_quota(u, now)
       IN  last' = QuotaRecord("devices_menu", u, now, base_q, extra_q, base_q + extra_q)
    /\ UNCHANGED <<dbVars, now, enfVars, wgVars, payVars>>

\* _render_main_menu: base_q, extra_q, total_q = max(0, base_q + extra_q)
MainMenuQuota ==
    /\ LET u == users[1]
           base_q == IF has_base_active(u, now) THEN u.device_quota ELSE 0
           extra_q == IF _has_extra(u, now) THEN u.extra_devices_count ELSE 0
           total_q == IF base_q + extra_q > 0 THEN base_q + extra_q ELSE 0
       IN  last' = QuotaRecord("main_menu", u, now, base_q, extra_q, total_q)
    /\ UNCHANGED <<dbVars, now, enfVars, wgVars, payVars>>

\* enforce_user_devices: base_quota, extra_active_count
EnforceQuota ==
    /\ last' = QuotaRecord("enforce", users[1], now, baseQuota(users[1], now),
                           addonQuota(users[1], now), None)
    /\ UNCHANGED <<dbVars, now, enfVars, wgVars, payVars>>

\* device:add, past the base_active test: base_quota, extra_active_count
DeviceAddQuota ==
    /\ has_base_active(users[1], now)
    /\ LET u == users[1]
           base_quota == u.device_quota
           extra_active_count ==
               IF u.extra_devices_until # None /\ u.extra_devices_until > now
               THEN u.extra_devices_count ELSE 0
       IN  last' = QuotaRecord("device_add", u, now, base_quota, extra_active_count, None)
    /\ UNCHANGED <<dbVars, now, enfVars, wgVars, payVars>>

QuotaNext ==
    \/ UserTotalQuota
    \/ DevicesMenuQuota
    \/ MainMenuQuota
    \/ EnforceQuota
    \/ DeviceAddQuota

SpecQuota == QuotaInit /\ [][QuotaNext]_vars

\* the reference quotas of an account snapshot u at time t
RefBaseQuota(u, t) ==
    IF u.subscription_until # None /\ u.subscription_until > t THEN u.device_quota ELSE 0

RefAddonQuota(u, t) ==
    IF u.extra_devices_until # None /\ u.extra_devices_until > t
    THEN u.extra_devices_count ELSE 0

RefTotalQuota(u, t) == RefBaseQuota(u, t) + RefAddonQuota(u, t)

\* C15: every quota derivation of the program equals the reference model for
\* every account snapshot and every now: the base quota is device_quota while
\* subscription_until > now and 0 otherwise, the add-on quota is
\* extra_devices_count while extra_devices_until > now and 0 otherwise, and
\* the total is their sum.
C15_QuotaDerivations ==
    last.op \in QuotaOps =>
        /\ last.base # None => last.base = RefBaseQuota(last.user, last.at)
        /\ last.extra # None => last.extra = RefAddonQuota(last.user, last.at)
        /\ last.total # None => last.total = RefTotalQuota(last.user, last.at)

StoredStatuses == {"pending", "succeeded", "canceled"}

\* C16: the stored status of every payment record is always one of pending,
\* succeeded, canceled, whatever the gateway returns; a record is created
\* pending or succeeded and only ever moves from pending to succeeded or
\* canceled.
C16_StoredStatus ==
    [][\A i \in DOMAIN payments' :
          /\ payments'[i].status \in StoredStatuses
          /\ (i \in DOMAIN payments /\ payments'[i].status # payments[i].status)
                => payments[i].status = "pending"]_vars

\* =====================================================================
\* The payment sweep on its own, run after run (bot.py 39-61), over k
\* records the gateway keeps pending and one newer record it reports as
\* succeeded; no watcher is left.
\* =====================================================================
SweepInit ==
    /\ now = 0
    /\ users = [id \in UserIds |->
                  IF id = 1 THEN UserRow(0, None, 0, None, 0, 2) ELSE ReferrerRow]
    /\ tariffs = <<TariffRow(30, 1, 30000)>>
    /\ \E k \in 0..MaxOlderPending :
          /\ payments = [i \in 1..(k + 1) |-> PaymentRow(i, "pending", "TARIFF", 30000, 1)]
          /\ yk = [i \in 1..(k + 1) |-> IF i <= k THEN "pending" ELSE "succeeded"]
    /\ applied = [i \in DOMAIN payments |-> 0]
    /\ devices = <<>> /\ nodes = <<>>
    /\ tasks = <<>> /\ user_payment_tasks = None
    /\ hpc = HandlerIdle /\ sweep = SweepIdle
    /\ EnforceIdle
    /\ wg_up = TRUE /\ peers = {}
    /\ last = NoOp

SweepNext == SweepSelect \/ SweepGetPayment \/ SweepApply \/ SweepCommit

\* get_payment answered with a status the sweep acts on
SweepGetAnswered == SweepGetPayment /\ sweep'.changed # sweep.changed

\* the sweep keeps running, and a gateway query that is repeated forever
\* is eventually answered
SpecSweep ==
    /\ SweepInit /\ [][SweepNext]_vars
    /\ WF_vars(SweepNext)
    /\ SF_vars(SweepGetAnswered)

\* C17: every payment stored as pending whose gateway status is succeeded is
\* eventually stored as succeeded with its effect applied, however many other
\* payments stay pending forever, while the sweep keeps running and gateway
\* queries are eventually answered.
C17_SweepSettlesEventually ==
    \A i \in 1..(MaxOlderPending + 1) :
        (i \in DOMAIN payments /\ payments[i].status = "pending" /\ yk[i] = "succeeded")
            ~> (i \in DOMAIN payments /\ payments[i].status = "succeeded" /\ applied[i] >= 1)

\* a class of the account has more devices than its quota now
OverQuota(flag) ==
    CountClass(devices, flag) >
        (IF flag THEN addonQuota(users[1], now) ELSE baseQuota(users[1], now))

\* C18: when a window has expired or an admin has lowered the quota or
\* deactivated the subscription, so that a class has more devices than its
\* quota, then while the sync loop keeps running the devices of that class
\* are eventually at most the class quota.
C18_DriftRepaired ==
    /\ OverQuota(FALSE) ~> ~OverQuota(FALSE)
    /\ OverQuota(TRUE) ~> ~OverQuota(TRUE)

\* the base window ran out on an account with base devices, and a later run
\* has removed them all
C18_Witness ==
    /\ last.op = "enforce"
    /\ last.user.subscription_until # None /\ last.user.subscription_until <= last.at
    /\ last.prev.op = "enforce" /\ last.prev.at < last.user.subscription_until
    /\ CountClass(last.before, FALSE) >= 1 /\ CountClass(last.prev.after, FALSE) >= 1
    /\ CountClass(devices, FALSE) = 0

\* the run kept exactly the q oldest devices of a class (rows are created
\* with increasing id and created_at) and deleted exactly the newer ones
KeptOldest(flag, q) ==
    LET before == ClassIds(last.before, flag)
        kept == before \ last.deleted
    IN  /\ Cardinality(kept) = q
        /\ kept = ClassIds(devices, flag)
        /\ \A k \in kept : \A d \in before \ kept : k < d

\* C19: when a class's window is active and the class has more devices than
\* its quota q, a run keeps exactly the q oldest devices of the class and
\* deletes exactly the remaining newest ones.
C19_OldestKept ==
    last.op = "enforce" =>
        /\ ( /\ WindowActive(last.user.subscription_until, last.at)
             /\ CountClass(last.before, FALSE) > baseQuota(last.user, last.at) )
           => KeptOldest(FALSE, baseQuota(last.user, last.at))
        /\ ( /\ WindowActive(last.user.extra_devices_until, last.at)
             /\ CountClass(last.before, TRUE) > addonQuota(last.user, last.at) )
           => KeptOldest(TRUE, addonQuota(last.user, last.at))

\* three base devices with quota 1: the oldest is kept, the two newer ones
\* are deleted
C19_Witness ==
    /\ last.op = "enforce"
    /\ WindowActive(last.user.subscription_until, last.at)
    /\ baseQuota(last.user, last.at) = 1
    /\ ClassIds(last.before, FALSE) = {1, 2, 3}
    /\ last.deleted = {2, 3}
    /\ ClassIds(devices, FALSE) = {1}

\* =====================================================================
\* One pass of the sync loop over an account, with the WireGuard server
\* reachable or not and with any of the account's peers already missing.
\* =====================================================================
TrimInit ==
    /\ now = 0
    /\ \E sub \in {None, MaxDay}, quota \in 0..MaxQuota,
          ext \in {None, MaxDay}, cnt \in 0..MaxQuota :
          users = [id \in UserIds |->
                     IF id = 1 THEN UserRow(0, sub, quota, ext, cnt, None) ELSE ReferrerRow]
    /\ \E flags \in DeviceLists :
          /\ devices = [i \in DOMAIN flags |->
                           DeviceRow(i, flags[i], IF flags[i] THEN None ELSE 1)]
          /\ nodes = <<NodeRow(Cardinality({i \in DOMAIN flags : ~flags[i]}),
                               node_max_capacity)>>
    /\ tariffs = <<TariffRow(30, 2, 30000)>>
    /\ payments = <<>>
    /\ EnforceIdle /\ PayIdle
    /\ wg_up \in BOOLEAN
    /\ peers \in SUBSET DOMAIN devices
    /\ last = NoOp

TrimNext == SyncLoad \/ EnforceUserDevices

SpecTrim == TrimInit /\ [][TrimNext]_vars

\* C20: whatever delete_client does (the server cannot be reached, the peer
\* no longer exists), every device a run selected for deletion has its
\* Device record deleted when the run is over.
C20_LocalDeleteRegardless ==
    last.op = "enforce" => \A d \in last.deleted : d \notin Ids(devices)

\* the server could not be reached during a run that selected devices whose
\* peers exist: the peers are still there and the records are gone
C20_Witness ==
    /\ last.op = "enforce" /\ ~wg_up
    /\ Cardinality(last.deleted) >= 2
    /\ last.deleted \subseteq peers
    /\ last.deleted \cap Ids(devices) = {}

\* =====================================================================
\* Device allocation and deletion on request: device:add and device:del
\* of account 1 against two nodes, with the WireGuard server reachable or
\* not and with a peer that may already be gone.
\* =====================================================================
\* the state a device request found and the state it left
DeviceRecord(op, dev) ==
    [op |-> op, dev |-> dev, at |-> now, user |-> users[1],
     devices |-> devices, nodes |-> nodes, peers |-> peers, wg_up |-> wg_up,
     payments |-> payments,
     a_devices |-> devices', a_nodes |-> nodes', a_peers |-> peers',
     a_payments |-> payments', a_hpc |-> hpc']

DeviceAddRequest ==
    /\ DeviceAddHandler
    /\ last' = DeviceRecord("device:add", None)

\* `try: await node_client.delete_client(...)` went through; any exception
\* answers the user with the error and returns
DeleteClientDone(outcome) == outcome = "ok"

\* device:del:<id> (handlers.py 1331-1378): the row is looked up; when it has
\* a node, delete_client is called and the node's load is decremented, and a
\* failure ends the handler; then the row is deleted and committed
DeviceDelHandler(dev_id) ==
    /\ hpc.pc = "idle"
    /\ IF dev_id \notin Ids(devices)
       THEN UNCHANGED <<devices, nodes, peers>>
       ELSE LET d == devices[CHOOSE i \in DOMAIN devices : devices[i].id = dev_id]
            IN  IF d.node_id # None
                THEN IF DeleteClientDone(DeleteClient(dev_id))
                     THEN /\ devices' = DeleteRows(devices, {dev_id})
                          /\ nodes' = [nodes EXCEPT ![d.node_id].load =
                                          IF @ - 1 < 0 THEN 0 ELSE @ - 1]
                          /\ peers' = IF wg_up THEN peers \ {dev_id} ELSE peers
                     ELSE UNCHANGED <<devices, nodes, peers>>
                ELSE /\ devices' = DeleteRows(devices, {dev_id})
                     /\ UNCHANGED <<nodes, peers>>
    /\ UNCHANGED <<users, tariffs, payments, wg_up, now, enfVars, payVars>>

DeviceDelRequest(dev_id) ==
    /\ DeviceDelHandler(dev_id)
    /\ last' = DeviceRecord("device:del", dev_id)

\* a nodes row: in service with room, in service and full, or out of service
NodeKinds == {"free", "full", "off"}
NodeOfKind(kind, load) ==
    [is_active |-> kind # "off", load |-> load,
     max_capacity |-> IF kind = "full" THEN load ELSE node_max_capacity]

DevicesInit ==
    /\ now = 0
    /\ \E sub \in {None, MaxDay}, quota \in 0..MaxQuota, cnt \in 0..MaxQuota :
          users = [id \in UserIds |->
                     IF id = 1
                     THEN UserRow(0, sub, quota, IF cnt = 0 THEN None ELSE MaxDay, cnt, None)
                     ELSE ReferrerRow]
    /\ \E flags \in DeviceLists, k1 \in NodeKinds, k2 \in NodeKinds :
          /\ devices = [i \in DOMAIN flags |->
                           DeviceRow(i, flags[i], IF flags[i] THEN None ELSE 1)]
          /\ nodes = <<NodeOfKind(k1, Cardinality({i \in DOMAIN flags : ~flags[i]})),
                       NodeOfKind(k2, 1)>>
    /\ tariffs = <<TariffRow(30, 2, 30000)>>
    /\ payments = <<>>
    /\ EnforceIdle /\ PayIdle
    /\ wg_up \in BOOLEAN
    /\ peers \in {DOMAIN devices} \cup {DOMAIN devices \ {1} : up \in {wg_up} \ {FALSE}}
    /\ last = NoOp

\* the purchase device:add may start is followed in SpecPay
DevicesNext ==
    \/ DeviceAddRequest
    \/ \E dev_id \in 1..MaxDeviceId : DeviceDelRequest(dev_id)

SpecDevices == DevicesInit /\ [][DevicesNext]_vars

\* ------------------------------------------- claims of SpecDevices
\* the nodes a selection may return: in service and below capacity
Eligible(ns) == {n \in DOMAIN ns : ns[n].is_active /\ ns[n].load < ns[n].max_capacity}

AddRequested == last.op = "device:add"
BaseActiveBefore == WindowActive(last.user.subscription_until, last.at)
BaseFullBefore == CountClass(last.devices, FALSE) >= last.user.device_quota
AddonFullBefore == CountClass(last.devices, TRUE) >= addonQuota(last.user, last.at)

\* the request left the tables, the server and the handler as they were
NoEffect ==
    /\ last.a_devices = last.devices /\ last.a_nodes = last.nodes
    /\ last.a_peers = last.peers /\ last.a_payments = last.payments
    /\ last.a_hpc = HandlerIdle

\* the request added exactly one row, of this class and node
AddedOne(is_extra, node_id) ==
    /\ Len(last.a_devices) = Len(last.devices) + 1
    /\ SubSeq(last.a_devices, 1, Len(last.devices)) = last.devices
    /\ last.a_devices[Len(last.a_devices)].is_extra = is_extra
    /\ last.a_devices[Len(last.a_devices)].node_id = node_id

\* C21: device:del of a device whose peer is already gone from the server
\* completes and removes the Device record.
C21_MissingPeerNotAnError ==
    ( /\ last.op = "device:del" /\ last.dev \in Ids(last.devices)
      /\ last.wg_up /\ last.dev \notin last.peers )
    => last.dev \notin Ids(last.a_devices)

\* C22: device:add without an active base window changes nothing: no peer,
\* no Device, no node load, no purchase, whatever the add-on window holds.
C22_NoBaseNoAllocation ==
    (AddRequested /\ ~BaseActiveBefore) => NoEffect

\* refused although an add-on slot is free, a node has room and the server answers
C22_Witness ==
    /\ AddRequested /\ ~BaseActiveBefore /\ NoEffect
    /\ ~AddonFullBefore /\ ~BaseFullBefore
    /\ Eligible(last.nodes) # {} /\ last.wg_up

\* C23: a successful base allocation adds exactly one base Device on a node
\* that is in service, below capacity and of least load among such nodes, and
\* adds 1 to that node's load and to no other.
C23_BaseAllocation ==
    ( /\ AddRequested /\ BaseActiveBefore /\ ~BaseFullBefore
      /\ Eligible(last.nodes) # {} /\ last.wg_up )
    => \E n \in Eligible(last.nodes) :
          /\ \A m \in Eligible(last.nodes) : last.nodes[n].load <= last.nodes[m].load
          /\ AddedOne(FALSE, n)
          /\ last.a_nodes = [last.nodes EXCEPT ![n].load = @ + 1]

\* node 1 is out of service: the device went to node 2, whose load is now 2,
\* next to an add-on device that stayed
C23_Witness ==
    /\ AddRequested /\ BaseActiveBefore /\ ~BaseFullBefore /\ last.wg_up
    /\ ~last.nodes[1].is_active
    /\ AddedOne(FALSE, 2) /\ last.a_nodes[2].load = 2 /\ last.a_nodes[1] = last.nodes[1]
    /\ CountClass(last.devices, TRUE) >= 1

\* the allocation the request would make cannot be made
AllocationFails ==
    \/ ~BaseFullBefore /\ (Eligible(last.nodes) = {} \/ ~last.wg_up)
    \/ BaseFullBefore /\ ~AddonFullBefore /\ ~last.wg_up

\* C24: an allocation that finds no node with room, or whose create_client
\* fails, persists nothing: no Device, no load, no peer.
C24_FailedAllocation ==
    (AddRequested /\ BaseActiveBefore /\ AllocationFails) => NoEffect

\* create_client failed for a base device that had a node to go to
C24_Witness ==
    /\ AddRequested /\ BaseActiveBefore /\ ~BaseFullBefore
    /\ Eligible(last.nodes) # {} /\ ~last.wg_up
    /\ NoEffect

\* C25: with the base quota full, a free add-on slot gives exactly one add-on
\* Device without a node and no node's load changes; with both classes full
\* no device is created.
C25_AddonAllocation ==
    (AddRequested /\ BaseActiveBefore /\ BaseFullBefore) =>
        /\ (~AddonFullBefore /\ last.wg_up) =>
               AddedOne(TRUE, None) /\ last.a_nodes = last.nodes
        /\ AddonFullBefore =>
               /\ last.a_devices = last.devices /\ last.a_nodes = last.nodes
               /\ last.a_peers = last.peers

\* an add-on device was allocated while no node had room
C25_Witness ==
    /\ AddRequested /\ BaseActiveBefore /\ BaseFullBefore /\ ~AddonFullBefore
    /\ Eligible(last.nodes) = {}
    /\ AddedOne(TRUE, None) /\ last.a_nodes = last.nodes

\* =====================================================================
\* Node selection: pick_best_node over every small nodes table, called
\* again and again on the same table.
\* =====================================================================
NodeIds == 1..3

NodesInit ==
    /\ now = 0
    /\ users = [id \in UserIds |->
                  IF id = 1 THEN UserRow(0, MaxDay, MaxQuota, None, 0, None) ELSE ReferrerRow]
    /\ nodes \in [NodeIds -> [is_active : BOOLEAN, load : 0..MaxLoad,
                              max_capacity : 1..MaxLoad]]
    /\ \A n \in NodeIds : nodes[n].load <= nodes[n].max_capacity
    /\ tariffs = <<TariffRow(30, 2, 30000)>>
    /\ payments = <<>> /\ devices = <<>>
    /\ EnforceIdle /\ PayIdle
    /\ wg_up = TRUE /\ peers = {}
    /\ last = NoOp

\* pick_best_node(session): .first() of the rows in service and below
\* capacity ordered by load alone, so any row of least load may come first;
\* None when there is no such row
PickBestNode ==
    /\ \E n \in (IF BestNodes = {} THEN {None} ELSE BestNodes) :
          last' = [op |-> "pick", nodes |-> nodes, node |-> n,
                   prev |-> [called |-> last.op = "pick",
                             node |-> IF last.op = "pick" THEN last.node ELSE None]]
    /\ UNCHANGED <<dbVars, now, enfVars, wgVars, payVars>>

SpecNodes == NodesInit /\ [][PickBestNode]_vars

\* what pick_best_node answers is a node in service, below capacity and of
\* least load among such nodes, and None exactly when there is none
PickIsBest ==
    last.op = "pick" =>
        /\ last.node # None =>
              /\ last.node \in Eligible(last.nodes)
              /\ \A m \in Eligible(last.nodes) :
                    last.nodes[last.node].load <= last.nodes[m].load
        /\ last.node = None <=> Eligible(last.nodes) = {}

\* C26: pick_best_node answers a node in service, below capacity and of least
\* load among such nodes, None exactly when there is none, and the same node
\* every time it is asked about the same table.
C26_PickBestNode ==
    /\ PickIsBest
    /\ (last.op = "pick" /\ last.prev.called) => last.node = last.prev.node

\* ------------------------------------- settlement: frame and bonus
\* the row with these two columns taken from another row
WithBase(row, from) ==
    [row EXCEPT !.subscription_until = from.subscription_until,
                !.device_quota = from.device_quota]
WithAddon(row, from) ==
    [row EXCEPT !.extra_devices_until = from.extra_devices_until,
                !.extra_devices_count = from.extra_devices_count]

\* C27: a settlement changes only the fields of its purpose: TOPUP adds the
\* amount to the payer's balance; TARIFF changes the payer's subscription_until
\* and device_quota and, for a referred payer, the referrer's balance; an
\* add-on changes the payer's extra_devices_until and extra_devices_count;
\* nothing else of any account changes.
C27_SettlementFrame ==
    last.op = "settle" =>
        LET p == payments[last.pid]
            b == last.before
            referred == b[1].referred_by_user_id # None
        IN  /\ p.purpose = "TOPUP" =>
                  /\ users[1] = [b[1] EXCEPT !.balance = @ + p.amount]
                  /\ users[2] = b[2]
            /\ p.purpose = "TARIFF" =>
                  /\ users[1] = WithBase(b[1], users[1])
                  /\ users[2] = IF referred THEN [b[2] EXCEPT !.balance = users[2].balance]
                                ELSE b[2]
            /\ p.purpose = "EXTRA_DEVICE" =>
                  /\ users[1] = WithAddon(b[1], users[1])
                  /\ users[2] = b[2]

\* a top-up of a referred payer with windows of its own: the balance grew by
\* the amount and the referrer has what it had
C27_Witness ==
    /\ last.op = "settle" /\ payments[last.pid].purpose = "TOPUP"
    /\ last.before[1].referred_by_user_id = 2
    /\ last.before[1].subscription_until # None /\ last.before[1].extra_devices_until # None
    /\ users[1].balance = last.before[1].balance + payments[last.pid].amount
    /\ users[2] = last.before[2]

\* n/d rounded to the nearest integer, a half going up
RoundHalfUp(n, d) == (2 * n + d) \div (2 * d)

\* C28: a TARIFF settlement of a referred payer adds
\* amount * referral_bonus_percent / 100, rounded half-up to the kopeck, to the
\* referrer's balance; add-on and top-up settlements add nothing.
C28_ReferralBonusHalfUp ==
    last.op = "settle" =>
        LET p == payments[last.pid]
            b == last.before
        IN  users[2].balance - b[2].balance =
               IF p.purpose = "TARIFF" /\ b[1].referred_by_user_id = 2
               THEN RoundHalfUp(p.amount * referral_bonus_percent, 100)
               ELSE 0

\* =====================================================================
\* Settlement next to the administration of the tariffs table.  The bot
\* has no handler that writes tariffs: rows are inserted and deleted in the
\* database, and payments.tariff_id is declared ondelete="SET NULL".
\* =====================================================================
\* DELETE FROM tariffs WHERE id = t
DeleteTariff(t) ==
    /\ t \in DOMAIN tariffs
    /\ tariffs' = [i \in DOMAIN tariffs \ {t} |-> tariffs[i]]
    /\ payments' = [i \in DOMAIN payments |->
                       IF payments[i].tariff_id = t
                       THEN [payments[i] EXCEPT !.tariff_id = None] ELSE payments[i]]
    /\ UNCHANGED <<users, devices, nodes, now, enfVars, wgVars, last, payVars>>

OrphanNext == SettleNext \/ DeleteTariff(1)

SpecOrphan == SettleInit /\ [][OrphanNext]_vars

\* C29: a payment is never recorded as succeeded with no effect on any
\* account (the code has no way to report a purpose it cannot apply: the
\* settlement raises nothing and writes nothing else).
C29_NoSilentSuccess ==
    last.op = "settle" => users # last.before

\* =====================================================================
\* The payment machinery with its tasks scheduled: the event loop resumes
\* every watcher whose await has completed, and wall-clock time passes.
\* =====================================================================
WatcherRuns(w) == w \in DOMAIN tasks /\ Watcher(w)
ClockRuns(w) == w \in DOMAIN tasks /\ TimeoutElapses(w)

SpecWatch ==
    /\ PayInit /\ [][PayNext]_vars
    /\ \A w \in 1..MaxPayments : WF_vars(WatcherRuns(w)) /\ WF_vars(ClockRuns(w))

\* C30: every watcher terminates, whatever the gateway answers; and a watcher
\* that is at the top of its loop after its timeout leaves the loop with its
\* next step.
C30_WatcherTerminates ==
    /\ \A w \in 1..MaxPayments :
          (w \in DOMAIN tasks) ~> (w \in DOMAIN tasks /\ tasks[w].pc = "done")
    /\ [][\A w \in DOMAIN tasks :
            (tasks[w].pc = "top" /\ tasks[w].expired /\ tasks'[w].pc # "top")
            => tasks'[w].pc \in {"notify", "done"}]_vars

\* a watcher ended by its timeout while the gateway and the stored record
\* still say pending
C30_Witness ==
    \E w \in DOMAIN tasks :
        /\ tasks[w].pc = "done" /\ tasks[w].expired /\ ~tasks[w].must_cancel
        /\ yk[tasks[w].payment_id] = "pending"
        /\ payments[PaymentOf(tasks[w].payment_id)].status = "pending"

\* ------------------------------------------------ claims of the watcher
\* the step of watcher w is its timeout branch, or the return that follows it
TimeoutStep(w) ==
    \/ tasks[w].pc = "top" /\ tasks'[w].pc = "notify"
    \/ tasks[w].pc = "notify" /\ tasks[w].status = "none" /\ tasks'[w].pc = "done"

QueryFailed(w) ==
    [op |-> "get_failed", w |-> w,
     flip |-> IF last.op = "get_failed" THEN ~last.flip ELSE FALSE]

PollGetFails(w) == WatcherGetFails(w) /\ last' = QueryFailed(w)

PollGetAnswers(w) == WatcherGetAnswers(w) /\ UNCHANGED last

PollWatcher(w) ==
    \/ WatcherTimeout(w)
    \/ WatcherSelect(w)
    \/ PollGetFails(w)
    \/ PollGetAnswers(w)
    \/ WatcherApply(w)
    \/ WatcherCommit(w)
    \/ WatcherReturn(w)
    \/ WatcherCancelled(w)

PollNext ==
    \/ \E i \in DOMAIN yk, status \in GatewayStatuses \ {"pending"} : YkResolve(i, status)
    \/ \E w \in DOMAIN tasks : PollWatcher(w)
    \/ \E w \in DOMAIN tasks : TimeoutElapses(w)
    \/ \E t \in DOMAIN tariffs : TariffBuy(t)
    \/ CreatePayment
    \/ AwaitOldTask

SpecPoll == PayInit /\ [][PollNext]_vars

\* the step is a failed gateway query of watcher w
FailedQueryStep(w) == last' # last /\ last'.op = "get_failed" /\ last'.w = w

\* watcher w ends in this step
EndsStep(w) == Running(w) /\ tasks'[w].pc = "done"

MaxRound == 3
MaxFailures == 1

RoundSizes == (1..MaxRound) \cup {sweep_limit + 1}

RoundInit ==
    /\ now = 0
    /\ users = [id \in UserIds |->
                  IF id = 1 THEN UserRow(0, None, 0, None, 0, 2) ELSE ReferrerRow]
    /\ tariffs = <<TariffRow(30, 1, 30000)>>
    /\ \E n \in RoundSizes :
          /\ payments = [i \in 1..n |-> PaymentRow(i, "pending", "TARIFF", 30000, 1)]
          /\ IF n <= MaxRound
             THEN yk \in [1..n -> GatewayStatuses]
             ELSE yk = [i \in 1..n |->
                          IF i = 1 \/ i >= sweep_limit THEN "succeeded" ELSE "pending"]
    /\ applied = [i \in DOMAIN payments |-> 0]
    /\ devices = <<>> /\ nodes = <<>>
    /\ tasks = <<>> /\ user_payment_tasks = None
    /\ hpc = HandlerIdle /\ sweep = SweepIdle
    /\ EnforceIdle
    /\ wg_up = TRUE /\ peers = {}
    /\ last = NoOp

RoundSelect ==
    /\ SweepSelectStep
    /\ last' = [op |-> "round", batch |-> sweep'.batch, outcomes |-> <<>>,
                before |-> payments, applied |-> applied]

FailuresOf(outcomes) == Cardinality({i \in DOMAIN outcomes : outcomes[i] = "failed"})

RoundGetFails ==
    /\ sweep.pc = "get"
    /\ FailuresOf(last.outcomes) < MaxFailures
    /\ SweepGetFails
    /\ last' = [last EXCEPT !.outcomes = Extend(@, sweep.batch[sweep.i], "failed")]

RoundGetAnswers ==
    /\ SweepGetAnswers
    /\ LET i == sweep.batch[sweep.i]
       IN  last' = [last EXCEPT !.outcomes = Extend(@, i, yk[payments[i].yk_payment_id])]

RoundNext == RoundSelect \/ RoundGetFails \/ RoundGetAnswers \/ SweepApply \/ SweepCommit

SpecRound == RoundInit /\ [][RoundNext]_vars

\* a round has been committed and `last` is its record
RoundDone == sweep.pc = "idle" /\ last.op = "round"

BatchOf(seq) == {seq[k] : k \in DOMAIN seq}

\* the pending records of ps that have fewer than sweep_limit pending records
\* created before them
OldestPending(ps) ==
    LET P == {i \in DOMAIN ps : ps[i].status = "pending"}
    IN  {i \in P : Cardinality({j \in P : j < i}) < sweep_limit}

\* C33: a committed round took the oldest pending records, at most 20, in
\* ascending creation order, and queried every one of them; a record whose
\* query failed is unchanged (pending), every record whose query was answered
\* has the answered status, each answered succeeded is settled once by the
\* round, and records outside the batch are unchanged.
C33_FailedQuerySkipsOne ==
    RoundDone =>
        /\ BatchOf(last.batch) = OldestPending(last.before)
        /\ Len(last.batch) <= sweep_limit
        /\ \A k \in DOMAIN last.batch : k > 1 => last.batch[k - 1] < last.batch[k]
        /\ DOMAIN last.outcomes = BatchOf(last.batch)
        /\ \A i \in DOMAIN payments :
              IF i \in BatchOf(last.batch) /\ i \in DOMAIN last.outcomes
                 /\ last.outcomes[i] # "failed"
              THEN /\ payments[i].status = last.outcomes[i]
                   /\ applied[i] = last.applied[i]
                                     + (IF last.outcomes[i] = "succeeded" THEN 1 ELSE 0)
              ELSE payments[i] = last.before[i] /\ applied[i] = last.applied[i]

\* a round over a full batch of 20, with a newer pending record left out: the
\* query of the oldest record failed although the gateway reports succeeded,
\* and it stays pending; the twentieth record was settled in the same round
C33_Witness ==
    /\ RoundDone
    /\ Len(last.batch) = sweep_limit /\ Len(payments) > sweep_limit
    /\ \E i, j \in BatchOf(last.batch) :
          /\ i < j
          /\ last.outcomes[i] = "failed" /\ yk[payments[i].yk_payment_id] = "succeeded"
          /\ payments[i].status = "pending" /\ applied[i] = 0
          /\ last.outcomes[j] = "succeeded"
          /\ payments[j].status = "succeeded" /\ applied[j] = 1
          /\ users[1].subscription_until # None

\* =====================================================================
\* SpecBalance: purchases from the balance, with the handler's select and
\* its debit as two steps, beside a top-up of the same account (with its
\* watcher) and a subscription payment of an account it referred, both
\* settled by the watcher or the sweep at any moment.
\* =====================================================================
MaxPurchases == 2

StartBalances == {0, 10000, 30000}
TopupAmount == 10000

\* the payments made from the balance so far
Purchases == {i \in DOMAIN payments : payments[i].yk_payment_id = None}

BalanceInit ==
    /\ now = 0
    /\ \E bal \in StartBalances :
          users = [id \in UserIds |->
                     IF id = 1 THEN UserRow(bal, None, 0, None, 0, None)
                     ELSE UserRow(0, None, 0, None, 0, 1)]
    /\ tariffs = <<TariffRow(30, 1, 30000)>>
    /\ payments = <<PaymentRow(1, "pending", "TOPUP", TopupAmount, None),
                    [PaymentRow(2, "pending", "TARIFF", 30000, 1) EXCEPT !.user_id = 2]>>
    /\ yk = <<"pending", "pending">>
    /\ applied = <<0, 0>>
    /\ tasks = <<TaskRow(1)>> /\ user_payment_tasks = 1
    /\ hpc = HandlerIdle /\ sweep = SweepIdle
    /\ devices = <<>> /\ nodes = <<NodeRow(0, node_max_capacity)>>
    /\ EnforceIdle
    /\ wg_up = TRUE /\ peers = {}
    /\ last = NoOp

\* paybalance:<purpose>:<sid>: the account row is selected
BalanceRead(purpose, t) ==
    /\ hpc.pc = "idle" /\ Cardinality(Purchases) < MaxPurchases
    /\ hpc' = [pc |-> "pb_read", purpose |-> purpose, tariff_id |-> t, u |-> users[1]]
    /\ UNCHANGED <<dbVars, now, enfVars, wgVars, last, yk, tasks, user_payment_tasks, sweep, applied>>

PriceOf(purpose, t) == IF purpose = "TARIFF" THEN tariffs[t].price ELSE device_extra_price

\* the balance of the selected row is below the price: message and return
BalanceReject ==
    /\ hpc.pc = "pb_read"
    /\ ~PayBalanceAllowed(hpc.purpose, hpc.u, PriceOf(hpc.purpose, hpc.tariff_id))
    /\ hpc' = HandlerIdle
    /\ last' = [op |-> "pay_rejected", balance |-> hpc.u.balance,
                price |-> PriceOf(hpc.purpose, hpc.tariff_id)]
    /\ UNCHANGED <<dbVars, now, enfVars, wgVars, yk, tasks, user_payment_tasks, sweep, applied>>

\* the debit of the selected row and the first commit
BalanceDebit ==
    /\ hpc.pc = "pb_read"
    /\ PayBalanceFrom(hpc.purpose, hpc.tariff_id, hpc.u)
    /\ UNCHANGED last

BalanceNext ==
    \/ \E i \in DOMAIN yk, status \in GatewayStatuses \ {"pending"} : YkResolve(i, status)
    \/ \E w \in DOMAIN tasks : Watcher(w)
    \/ SweepSelect \/ SweepGetPayment \/ SweepApply \/ SweepCommit
    \/ \E t \in DOMAIN tariffs : BalanceRead("TARIFF", t)
    \/ BalanceRead("EXTRA_DEVICE", None)
    \/ BalanceReject
    \/ BalanceDebit
    \/ PayBalanceAwait \/ PayBalanceApply \/ PayBalanceCommit
    \/ PayBalanceFails

SpecBalance == BalanceInit /\ [][BalanceNext]_vars

\* the handler returns from its balance check
RejectStep == hpc.pc = "pb_read" /\ hpc'.pc = "idle"

\* C34: no account's stored balance is ever negative, whatever the order of
\* balance purchases, top-up settlements and referral credits; and a balance
\* purchase whose selected balance is below the price returns without changing
\* any stored row, any watcher or the registry.
C34_BalanceNonNegative ==
    /\ [](\A id \in UserIds : users[id].balance >= 0)
    /\ [][RejectStep =>
            /\ hpc.u.balance < PriceOf(hpc.purpose, hpc.tariff_id)
            /\ UNCHANGED <<dbVars, applied, tasks, user_payment_tasks, yk>>]_vars

\* a purchase was rejected for a balance below the price, and another was
\* debited while a top-up and a referral credit of the same account were
\* settled
C34_Witness ==
    /\ last.op = "pay_rejected" /\ last.balance < last.price
    /\ Purchases # {}
    /\ applied[1] >= 1 /\ applied[2] >= 1
    /\ users[1].balance >= 0

\* =====================================================================
\* SpecAlloc: device:add with its await of create_client as a step of its
\* own, beside the sweep settling a pending subscription payment of the
\* same account.  Update handlers run one at a time, so a second device:add
\* starts only after the first has returned.
\* =====================================================================
AllocInit ==
    /\ now = 0
    /\ \E quota \in 1..MaxQuota, ext \in {None, MaxDay}, cnt \in 0..1 :
          /\ (cnt = 0) = (ext = None)
          /\ users = [id \in UserIds |->
                        IF id = 1 THEN UserRow(0, MaxDay, quota, ext, cnt, 2) ELSE ReferrerRow]
    /\ tariffs = <<TariffRow(30, 1, 30000)>>
    /\ payments = <<PaymentRow(1, "pending", "TARIFF", 30000, 1)>>
    /\ yk = <<"pending">> /\ applied = <<0>>
    /\ tasks = <<>> /\ user_payment_tasks = None
    /\ hpc = HandlerIdle /\ sweep = SweepIdle
    /\ devices = <<>> /\ nodes = <<NodeRow(0, node_max_capacity)>>
    /\ EnforceIdle
    /\ wg_up \in BOOLEAN /\ peers = {}
    /\ last = NoOp

\* device:add up to `await wg_client.create_client(name=name)`: the account
\* row and the two counts are read and the class of the new device is decided
AllocRead ==
    /\ hpc.pc = "idle" /\ NewDeviceId <= MaxDeviceId
    /\ LET u == users[1]
           base_count == CountClass(devices, FALSE)
           extra_count == CountClass(devices, TRUE)
           extra_active_count ==
               IF WindowActive(u.extra_devices_until, now) THEN u.extra_devices_count ELSE 0
       IN  /\ DeviceAddAllowed(u, now)
           /\ IF base_count < u.device_quota
              THEN \E n \in BestNodes :
                      hpc' = [pc |-> "add_create", is_extra |-> FALSE, node_id |-> n]
              ELSE /\ AddonSlotFree(extra_count, extra_active_count)
                   /\ hpc' = [pc |-> "add_create", is_extra |-> TRUE, node_id |-> None]
    /\ UNCHANGED <<dbVars, now, enfVars, wgVars, last, yk, tasks, user_payment_tasks,
                   sweep, applied>>

\* create_client returns and the Device row (with node.load += 1 for a base
\* device) is committed; or create_client raises and the handler is left
AllocCreate ==
    /\ hpc.pc = "add_create"
    /\ hpc' = HandlerIdle
    /\ IF ~CreateClientOk
       THEN UNCHANGED <<devices, nodes, peers>>
       ELSE /\ devices' = Append(devices, DeviceRow(NewDeviceId, hpc.is_extra, hpc.node_id))
            /\ nodes' = IF hpc.is_extra THEN nodes
                        ELSE [nodes EXCEPT ![hpc.node_id].load = LoadAfterAdd(@)]
            /\ peers' = peers \cup {NewDeviceId}
    /\ UNCHANGED <<users, tariffs, payments, wg_up, now, enfVars, last, yk, tasks,
                   user_payment_tasks, sweep, applied>>

AllocNext ==
    \/ \E status \in {"succeeded", "canceled"} : YkResolve(1, status)
    \/ SweepSelect \/ SweepGetPayment \/ SweepApply \/ SweepCommit
    \/ AllocRead
    \/ AllocCreate

SpecAlloc == AllocInit /\ [][AllocNext]_vars

\* the step commits a new device of the class
AddsDevice(flag) == CountClass(devices', flag) > CountClass(devices, flag)

\* C35: when a device:add commits a device while the base window is active,
\* the account's devices of that class are within the quota stored at that
\* moment: base devices within device_quota, add-on devices within the active
\* add-on quota.
C35_AllocationWithinQuota ==
    [][/\ AddsDevice(FALSE) /\ WindowActive(users'[1].subscription_until, now')
          => CountClass(devices', FALSE) <= users'[1].device_quota
       /\ AddsDevice(TRUE) /\ WindowActive(users'[1].subscription_until, now')
          => CountClass(devices', TRUE) <= addonQuota(users'[1], now')]_vars

\* =====================================================================
\* SpecStale: a pass of sync_access_loop beside the settlement of a pending
\* subscription payment by the sweep and device:add.  The pass selects the
\* accounts once, in one session with expire_on_commit=False, and hands
\* each selected row to enforce_user_devices.
\* =====================================================================
StaleInit ==
    /\ now = 0
    /\ users = [id \in UserIds |->
                  IF id = 1 THEN UserRow(0, None, 0, None, 0, 2) ELSE ReferrerRow]
    /\ \E max_devices \in 1..MaxQuota : tariffs = <<TariffRow(30, max_devices, 30000)>>
    /\ payments = <<PaymentRow(1, "pending", "TARIFF", 30000, 1)>>
    /\ yk = <<"pending">> /\ applied = <<0>>
    /\ tasks = <<>> /\ user_payment_tasks = None
    /\ hpc = HandlerIdle /\ sweep = SweepIdle
    /\ devices = <<>> /\ nodes = <<NodeRow(0, node_max_capacity)>>
    /\ EnforceIdle
    /\ wg_up \in BOOLEAN /\ peers = {}
    /\ last = NoOp

StaleNext ==
    \/ \E status \in {"succeeded", "canceled"} : YkResolve(1, status)
    \/ SweepSelect \/ SweepGetPayment \/ SweepApply \/ SweepCommit
    \/ AllocRead
    \/ AllocCreate
    \/ SyncLoad
    \/ EnforceUserDevices

SpecStale == StaleInit /\ [][StaleNext]_vars

\* the step is the pass reaching the account
EnforceStep == sync_pc = "loaded" /\ sync_pc' = "sleep"

\* C36: every device the entitlement sweep deletes is outside the entitlement
\* of the account row as stored at the moment of the deletion.
C36_NoStaleDeletion ==
    [][EnforceStep =>
          (Ids(devices) \ Ids(devices')) \subseteq EnforceDeletes(devices, users[1], now)]_vars

\* ------------------------------------------------ claims of the registry
\* C37: the registry entry of the account, when there is one, is the watcher
\* registered last and that watcher has not terminated; a watcher that
\* terminates removes the entry if the entry is that watcher and leaves the
\* registry as it is otherwise.
C37_RegistryHoldsCurrentWatcher ==
    /\ [](user_payment_tasks # None =>
             /\ user_payment_tasks = Len(tasks)
             /\ Running(user_payment_tasks))
    /\ [][\A w \in DOMAIN tasks :
             EndsStep(w) =>
                user_payment_tasks' = IF user_payment_tasks = w THEN None
                                      ELSE user_payment_tasks]_vars

\* the first watcher was superseded and is gone, the second has terminated by
\* itself after its payment was settled, and the registry is empty
C37_Witness ==
    /\ Len(tasks) = 2 /\ hpc.pc = "idle"
    /\ tasks[1].must_cancel /\ tasks[1].pc = "done"
    /\ ~tasks[2].must_cancel /\ tasks[2].pc = "done"
    /\ payments[PaymentOf(tasks[2].payment_id)].status = "succeeded"
    /\ user_payment_tasks = None

\* =====================================================================
\* SpecCancel: purchases, their watchers and the sweep, with the place at
\* which each cancellation reached its watcher recorded in `last`.
\* =====================================================================
CancelObserved(w) ==
    /\ WatcherCancelledStep(w)
    /\ last' = [op |-> "cancelled", w |-> w, pc |-> tasks[w].pc, status |-> tasks[w].status,
                stored |-> payments[PaymentOf(tasks[w].payment_id)].status,
                applied |-> applied[PaymentOf(tasks[w].payment_id)]]

CancelWatcher(w) ==
    \/ WatcherSelect(w)
    \/ WatcherGetPayment(w)
    \/ WatcherApply(w)
    \/ WatcherCommit(w)
    \/ WatcherReturn(w)
    \/ CancelObserved(w)

CancelNext ==
    \/ \E i \in DOMAIN yk, status \in GatewayStatuses \ {"pending"} : YkResolve(i, status)
    \/ \E w \in DOMAIN tasks : CancelWatcher(w)
    \/ SweepSelect \/ SweepGetPayment \/ SweepApply \/ SweepCommit
    \/ \E t \in DOMAIN tariffs : TariffBuy(t)
    \/ CreatePayment
    \/ AwaitOldTask

SpecCancel == PayInit /\ [][CancelNext]_vars

\* watcher w is unwound by a cancellation in this step
CancelStep(w) == Running(w) /\ tasks[w].must_cancel /\ tasks'[w].pc = "done"

\* watcher w commits the succeeded status in this step
CommitStep(w) ==
    tasks[w].pc = "commit" /\ tasks[w].status = "succeeded" /\ tasks'[w].pc = "notify"

\* C38: a cancellation that reaches a watcher persists nothing: no payment
\* record, no account row and no settlement changes in that step, so a payment
\* whose settlement was not yet committed stays as stored; the watcher's commit
\* persists the status succeeded and the settlement together; and a payment
\* whose watcher was cancelled before its commit is settled at most once.
C38_CancelAllOrNothing ==
    /\ [][\A w \in DOMAIN tasks :
             /\ CancelStep(w) =>
                   payments' = payments /\ users' = users /\ applied' = applied
             /\ CommitStep(w) =>
                   LET i == PaymentOf(tasks[w].payment_id)
                   IN  /\ payments'[i].status = "succeeded"
                       /\ applied'[i] = applied[i] + 1
                       /\ users' = Flush(users, tasks[w].session)]_vars
    /\ []((last.op = "cancelled" /\ last.pc \in {"apply", "commit"} /\ last.applied = 0)
            => applied[PaymentOf(tasks[last.w].payment_id)] <= 1)

\* the cancellation reached the watcher while it held the uncommitted
\* settlement of a succeeded payment: the record was left pending and
\* unsettled, and the sweep has settled it once since
C38_Witness ==
    /\ last.op = "cancelled" /\ last.pc = "commit" /\ last.status = "succeeded"
    /\ last.stored = "pending" /\ last.applied = 0
    /\ payments[PaymentOf(tasks[last.w].payment_id)].status = "succeeded"
    /\ applied[PaymentOf(tasks[last.w].payment_id)] = 1

\* ------------------------------------------------ claims of device:del
\* C39: when device:del removes the record of a device whose peer exists on a
\* reachable server, the delete of that peer was issued: the peer is gone as
\* well, for an add-on device as for a base device.
C39_PeerDeletedWithRecord ==
    ( /\ last.op = "device:del"
      /\ last.dev \in Ids(last.devices) /\ last.dev \notin Ids(last.a_devices)
      /\ last.wg_up /\ last.dev \in last.peers )
    => last.dev \notin last.a_peers

\* ------------------------------------------------ claims of the add-on count
\* C40: after the settlement of an EXTRA_DEVICE payment on an account whose
\* add-on window was absent or expired while its extra_devices_count was not
\* zero, the add-on quota of the account is 1.
C40_AddonQuotaAfterExpiry ==
    ( /\ Settled("EXTRA_DEVICE")
      /\ ~WindowActive(PayerBefore.extra_devices_until, last.at)
      /\ PayerBefore.extra_devices_count > 0 )
    => addonQuota(Payer, now) = 1
====
